------------------------- MODULE MaskRequestProofs -------------------------
(***************************************************************************)
(* Theorems about SecretRefresh, for any files, values and number of edits,*)
(* and about MaskRequest, which masks with that list, for any requests.    *)
(***************************************************************************)
EXTENDS MaskRequest, SequenceLemmas
-----------------------------------------------------------------------------
(***************************************************************************)
(* The list on its own.                                                    *)
(***************************************************************************)

(* No recorded stamp is ahead of the clock, so a later save never brings a *)
(* recorded stamp back; and a path without a file has no values.           *)
StampsInv ==
  \A p \in Paths :
    /\ files[p].stamp <= clock /\ sig[p] <= clock /\ seen[p] <= clock /\ listed[p] <= clock
    /\ files[p].stamp = 0 => files[p].content = {}

(* What has been read to its end so far is what the file holds, unless it  *)
(* changed after its signature was taken.                                  *)
ParsedInv ==
  pc = "parse" =>
    \A p \in visited \ cut :
      Decodable(p) /\ sig[p] = files[p].stamp => files[p].content \subseteq got[p]

IInv == TypeOK /\ StampsInv /\ ParsedInv /\ NothingUnmasked

LEMMA InitIInv == Init => IInv
<1> SUFFICES ASSUME Init PROVE IInv
  OBVIOUS
<1>1. \A p \in Paths : files[p] \in {NoFile} \cup {[content |-> c, stamp |-> 1] : c \in Contents \ {Garbled}}
  BY DEF Init
<1>2. \A p \in Paths :
        /\ files[p].stamp \in {0, 1}
        /\ files[p].content \subseteq Values
        /\ files[p] \in File \cup {NoFile}
        /\ files[p].stamp = 0 => files[p].content = {}
  BY <1>1, FilesAssumption DEF File, NoFile
<1>3. PICK parts \in [Paths -> SUBSET Values] :
        /\ values = UNION {parts[p] : p \in Paths}
        /\ short = {p \in Paths : parts[p] # files[p].content}
  BY DEF Init
<1>4. \A p \in Paths : parts[p] \subseteq values
  BY <1>3, Zenon
<1>5. TypeOK
  <2>1. files \in [Paths -> File \cup {NoFile}]
    BY <1>2 DEF Init
  <2>2. values \subseteq Values /\ short \subseteq Paths
    BY <1>3
  <2>3. sig \in [Paths -> Nat] /\ listed = sig
    BY <1>2 DEF Init, Signature
  <2> QED
    BY <2>1, <2>2, <2>3, PeriodAssumption DEF Init, TypeOK, NoneSeen, NoneGot
<1>6. StampsInv
  BY <1>2 DEF Init, StampsInv, Signature, NoneSeen
<1>7. ParsedInv /\ NothingUnmasked
  BY <1>3, <1>4 DEF Init, ParsedInv, NothingUnmasked
<1> QED
  BY <1>5, <1>6, <1>7 DEF IInv

(* An edit gives its file a stamp that nothing has recorded, or takes the  *)
(* file and its values away.                                               *)
LEMMA EditIInv ==
  ASSUME IInv, NEW p \in Paths, RemoveFile(p) \/ \E c \in Contents : Save(p, c)
  PROVE  IInv'
<1>1. PICK f \in File \cup {NoFile} :
        /\ files' = [files EXCEPT ![p] = f]
        /\ f = NoFile \/ f.stamp = clock + 1
  <2>1. CASE RemoveFile(p)
    BY <2>1 DEF RemoveFile
  <2>2. ASSUME NEW c \in Contents, Save(p, c)
        PROVE  \E f \in File \cup {NoFile} :
                 files' = [files EXCEPT ![p] = f] /\ (f = NoFile \/ f.stamp = clock + 1)
    <3> DEFINE g == [content |-> c, stamp |-> clock + 1]
    <3>1. g \in File /\ g.stamp = clock + 1
      BY <2>2 DEF IInv, TypeOK, File
    <3>2. files' = [files EXCEPT ![p] = g]
      BY <2>2 DEF Save
    <3> HIDE DEF g
    <3> QED
      BY <3>1, <3>2
  <2> QED
    BY <2>1, <2>2
<1>2. clock' = clock + 1 /\ UNCHANGED <<sig, values, age, pc, visited, seen, got, cut, listed, short>>
  BY DEF RemoveFile, Save
<1>3. TypeOK'
  BY <1>1, <1>2 DEF IInv, TypeOK
<1>4. \A q \in Paths : files'[q] = IF q = p THEN f ELSE files[q]
  BY <1>1 DEF IInv, TypeOK
<1>5. f.stamp = clock + 1 \/ (f.stamp = 0 /\ f.content = {})
  BY <1>1 DEF NoFile
<1>6. clock \in Nat /\ \A q \in Paths : sig[q] \in Nat /\ seen[q] \in Nat /\ listed[q] \in Nat /\ files[q].stamp \in Nat
  BY DEF IInv, TypeOK, File, NoFile
<1>7. StampsInv'
  BY <1>2, <1>4, <1>5, <1>6 DEF IInv, StampsInv
<1>8. \A q \in Paths : sig[q] = files'[q].stamp \/ listed[q] = files'[q].stamp =>
        files'[q].content = {} \/ files'[q] = files[q]
  BY <1>4, <1>5, <1>6 DEF IInv, StampsInv
<1>9. ParsedInv'
  BY <1>2, <1>8 DEF IInv, ParsedInv, TypeOK, Decodable
<1>10. NothingUnmasked'
  BY <1>2, <1>8 DEF IInv, NothingUnmasked, Decodable
<1> QED
  BY <1>3, <1>7, <1>9, <1>10 DEF IInv

(* A pass of refresh: signatures are taken, or cannot be.                  *)
LEMMA StatIInv ==
  ASSUME IInv, NEW p \in Paths, Stat(p) \/ StatFails(p)
  PROVE  IInv'
<1>1. PICK s \in Nat :
        /\ s = 0 \/ s = files[p].stamp
        /\ seen' = [seen EXCEPT ![p] = s] /\ visited' = visited \cup {p} /\ pc = "stat"
        /\ clock' \in {clock, clock + 1}
        /\ UNCHANGED <<files, sig, values, age, pc, got, cut, listed, short>>
  <2>1. files[p].stamp \in Nat
    BY DEF IInv, TypeOK, File, NoFile
  <2> QED
    BY <2>1 DEF Stat, StatFails
<1>2. TypeOK'
  BY <1>1 DEF IInv, TypeOK
<1>3. clock \in Nat /\ \A q \in Paths : sig[q] \in Nat /\ seen[q] \in Nat /\ listed[q] \in Nat /\ files[q].stamp \in Nat
  BY DEF IInv, TypeOK, File, NoFile
<1>4. \A q \in Paths : seen'[q] = seen[q] \/ seen'[q] = s
  BY <1>1 DEF IInv, TypeOK
<1>5. StampsInv'
  BY <1>1, <1>3, <1>4 DEF IInv, StampsInv
<1> QED
  BY <1>1, <1>2, <1>5 DEF IInv, ParsedInv, NothingUnmasked, Decodable

(* A file is parsed, to its end or in part.                                *)
LEMMA ParseIInv ==
  ASSUME IInv, NEW p \in Paths, Parse(p)
  PROVE  IInv'
<1>1. Held(p) \subseteq Values
  <2>1. files[p] \in File \cup {NoFile}
    BY DEF IInv, TypeOK
  <2> QED
    BY <2>1, FilesAssumption DEF Held, Decodable, File, NoFile
<1>2. PICK part \in SUBSET Held(p) :
        /\ got' = [got EXCEPT ![p] = part]
        /\ cut' = cut \cup {q \in {p} : part # files[q].content}
        /\ visited' = visited \cup {p}
        /\ UNCHANGED <<files, clock, sig, values, age, pc, seen, listed, short>>
  BY DEF Parse
<1>3. TypeOK'
  BY <1>1, <1>2 DEF IInv, TypeOK
<1>4. p \notin cut' => got'[p] = files[p].content
  BY <1>2 DEF IInv, TypeOK
<1>5. \A q \in visited' \ cut' : q = p \/ (q \in visited \ cut /\ got'[q] = got[q])
  BY <1>2 DEF IInv, TypeOK
<1>6. ParsedInv'
  BY <1>2, <1>4, <1>5 DEF IInv, ParsedInv, TypeOK, Decodable
<1> QED
  BY <1>2, <1>3, <1>6 DEF IInv, StampsInv, NothingUnmasked, Decodable

(* The other steps: nothing is compared with the files until the new list  *)
(* is installed.                                                           *)
LEMMA RefreshIInv ==
  ASSUME IInv, Refresh
  PROVE  IInv'
<1>1. CASE Begin
  <2>1. TypeOK'
    BY <1>1, PeriodAssumption DEF Begin, IInv, TypeOK
  <2> QED
    BY <1>1, <2>1 DEF Begin, IInv, StampsInv, ParsedInv, NothingUnmasked, Decodable
<1>2. ASSUME NEW p \in Paths, Stat(p) \/ StatFails(p) \/ Parse(p) PROVE IInv'
  BY <1>2, StatIInv, ParseIInv
<1>3. CASE Compare
  <2>1. sig' = sig \/ sig' = seen
    BY <1>3 DEF Compare
  <2>2. TypeOK'
    BY <1>3, <2>1 DEF Compare, IInv, TypeOK, NoneSeen
  <2>3. StampsInv'
    BY <1>3, <2>1 DEF Compare, IInv, StampsInv, NoneSeen, TypeOK
  <2> QED
    BY <1>3, <2>2, <2>3 DEF Compare, IInv, ParsedInv, NothingUnmasked, Decodable
<1>4. ASSUME NEW p \in Paths, Undecodable(p) PROVE IInv'
  <2>1. TypeOK'
    BY <1>4 DEF Undecodable, IInv, TypeOK, NoneGot
  <2> QED
    BY <1>4, <2>1 DEF Undecodable, IInv, StampsInv, ParsedInv, NothingUnmasked, Decodable
<1>5. CASE Install
  <2>1. TypeOK'
    BY <1>5 DEF Install, IInv, TypeOK, NoneGot
  <2>2. \A p \in Paths : got[p] \subseteq values'
    <3>1. values' = UNION {got[p] : p \in Paths}
      BY <1>5 DEF Install
    <3> QED
      BY <3>1, Zenon
  <2>3. NothingUnmasked'
    BY <1>5, <2>2 DEF Install, Complete, IInv, ParsedInv, NothingUnmasked, Decodable
  <2> QED
    BY <1>5, <2>1, <2>3 DEF Install, IInv, StampsInv, ParsedInv, TypeOK
<1> QED
  BY <1>1, <1>2, <1>3, <1>4, <1>5 DEF Refresh

(* Every step of the list, its files and the time keeps the invariant.      *)
LEMMA NextIInv ==
  ASSUME IInv, [Next]_vars
  PROVE  IInv'
<1>1. ASSUME NEW p \in Paths, RemoveFile(p) \/ \E c \in Contents : Save(p, c)
      PROVE  IInv'
  BY <1>1, EditIInv
<1>2. CASE Tick
  <2>1. TypeOK'
    BY <1>2, PeriodAssumption DEF Tick, IInv, TypeOK
  <2> QED
    BY <1>2, <2>1 DEF Tick, IInv, StampsInv, ParsedInv, NothingUnmasked, Decodable
<1>3. CASE Refresh
  BY <1>3, RefreshIInv
<1>4. CASE UNCHANGED vars
  BY <1>4 DEF vars, IInv, TypeOK, StampsInv, ParsedInv, NothingUnmasked, Decodable
<1> QED
  BY <1>1, <1>2, <1>3, <1>4 DEF Next

(* The values of a file that is still as it was when the list in force was *)
(* parsed are masked, however edits, failed stats, parses that raise and   *)
(* refreshes interleave, unless the read of that very file failed then and *)
(* the failure was swallowed.                                              *)
THEOREM ListIsNoOlderThanItSays == Spec => []NothingUnmasked
<1>1. Init => IInv
  BY InitIInv
<1>2. IInv /\ [Next]_vars => IInv'
  BY NextIInv
<1>3. IInv => NothingUnmasked
  BY DEF IInv
<1> QED
  BY <1>1, <1>2, <1>3, PTL DEF Spec
-----------------------------------------------------------------------------
(***************************************************************************)
(* Requests masked with the list.                                          *)
(***************************************************************************)

(* A promised value is still in a file that is as it was when the list was *)
(* parsed, and was read to its end, so it is in the list; the strings      *)
(* before the next one are masked; and a request leaves when it is masked, *)
(* or after a failure in open mode.                                        *)
PromiseInv == promised \subseteq Covered

MaskedInv ==
  /\ \A i \in 1..Len(texts) : i < k => \A v \in promised : texts[i][v] = 0
  /\ stage = "idle" => k = 1
  /\ stage = "sent" => k > Len(texts)
  /\ stage = "sent_open" => fail = "open"

MInv == IInv /\ MaskTypeOK /\ PromiseInv /\ MaskedInv

(* What is promised is in the list, and is a value.                        *)
LEMMA CoveredIsListed ==
  ASSUME IInv
  PROVE  Covered \subseteq values /\ values \subseteq Values
<1>1. ASSUME NEW v \in Covered PROVE v \in values
  <2>1. PICK p \in Paths \ short : Decodable(p) /\ listed[p] = files[p].stamp /\ v \in files[p].content
    BY <1>1 DEF Covered
  <2> QED
    BY <2>1 DEF IInv, NothingUnmasked
<1> QED
  BY <1>1 DEF IInv, TypeOK

LEMMA InitMInv == MaskInit => MInv
<1> SUFFICES ASSUME MaskInit PROVE MInv
  OBVIOUS
<1>1. IInv
  BY InitIInv DEF MaskInit
<1>2. MaskTypeOK
  BY RequestsAssumption DEF MaskInit, Init, MaskTypeOK, Nothing, String
<1> QED
  BY <1>1, <1>2 DEF MaskInit, MInv, PromiseInv, MaskedInv

(* Every step is one of the list, or leaves it alone.                      *)
LEMMA StepOfList ==
  ASSUME [MaskNext]_maskVars
  PROVE  [Next]_vars
<1>1. CASE \E r \in Requests : Arrive(r)
  BY <1>1 DEF Arrive
<1>2. CASE HookStep
  BY <1>2 DEF HookStep, CallRefresh, RefreshStep, Substitute, Send, GiveUp, Next, Refresh
<1>3. CASE Elsewhere
  BY <1>3 DEF Elsewhere, Next
<1>4. CASE Edit
  BY <1>4 DEF Edit, Next
<1>5. CASE TimePasses
  BY <1>5 DEF TimePasses, Next
<1>6. CASE UNCHANGED maskVars
  BY <1>6 DEF maskVars
<1> QED
  BY <1>1, <1>2, <1>3, <1>4, <1>5, <1>6 DEF MaskNext

(* Only values still covered stay promised.                                *)
LEMMA StepPromise ==
  ASSUME MInv, [MaskNext]_maskVars
  PROVE  PromiseInv'
<1>1. CASE \E r \in Requests : Arrive(r)
  BY <1>1 DEF Arrive, vars, PromiseInv, Covered, Decodable
<1>2. CASE Track
  BY <1>2 DEF Track, PromiseInv
<1>3. CASE UNCHANGED maskVars
  BY <1>3 DEF maskVars, hookVars, vars, MInv, PromiseInv, Covered, Decodable
<1> QED
  BY <1>1, <1>2, <1>3 DEF MaskNext, HookStep, Elsewhere, Edit, TimePasses

(* The strings before the next one stay masked: the list has, whenever one *)
(* is masked, every value that is promised.                                *)
LEMMA SubstituteMasks ==
  ASSUME MInv, Substitute, Track
  PROVE  MaskTypeOK' /\ MaskedInv'
<1> DEFINE n == Len(texts)
<1>1. /\ k \in 1..n /\ texts \in Seq(String) /\ n \in Nat
      /\ texts' = [texts EXCEPT ![k] = Masked(texts[k])]
      /\ counts' = Counted(texts[k])
      /\ k' = k + 1 /\ stage' = "mask" /\ UNCHANGED <<pc, fail, original, masks>>
  BY DEF Substitute, MInv, MaskTypeOK, vars, requestVars
<1>2. texts[k] \in String
  BY <1>1
<1>3. Masked(texts[k]) \in String /\ Counted(texts[k]) \in [Values -> Nat]
  BY <1>2 DEF Masked, Counted, String, MInv, MaskTypeOK
<1>4. texts' \in Seq(String) /\ Len(texts') = n
  BY <1>1, <1>3
<1>5. promised' \subseteq promised /\ promised \subseteq values /\ promised \subseteq Values
  BY CoveredIsListed DEF Track, MInv, PromiseInv
<1>6. \A v \in promised : texts'[k][v] = 0
  BY <1>1, <1>5 DEF Masked
<1>7. \A i \in 1..n : i < k' => i = k \/ (i < k /\ texts'[i] = texts[i])
  BY <1>1
<1>8. \A i \in 1..n : i < k' => \A v \in promised' : texts'[i][v] = 0
  BY <1>5, <1>6, <1>7 DEF MInv, MaskedInv
<1>9. MaskTypeOK'
  <2>1. pc = "idle" \/ stage = "substitute"
    BY DEF Substitute, MInv, MaskTypeOK
  <2>2. pc' = "idle"
    BY <1>1, <2>1 DEF MInv, MaskTypeOK
  <2> QED
    BY <1>1, <1>3, <1>4, <1>5, <2>2 DEF MInv, MaskTypeOK
<1> QED
  BY <1>1, <1>4, <1>8, <1>9 DEF MaskedInv

(* The other steps change no string.                                       *)
LEMMA StepKeepsStrings ==
  ASSUME MInv, [MaskNext]_maskVars, ~(Substitute /\ Track)
  PROVE  MaskTypeOK' /\ MaskedInv'
<1>1. ASSUME NEW r \in Requests, Arrive(r)
      PROVE  MaskTypeOK' /\ MaskedInv'
  <2>1. r \in Seq(String) /\ k = 1
    BY <1>1, RequestsAssumption DEF Arrive, MInv, MaskedInv
  <2>2. Covered \subseteq Values
    BY CoveredIsListed DEF MInv
  <2>3. MaskTypeOK'
    BY <1>1, <2>1, <2>2 DEF Arrive, vars, MInv, MaskTypeOK
  <2> QED
    BY <1>1, <2>1, <2>3 DEF Arrive, MaskedInv
<1>2. ASSUME Track
      PROVE  promised' \subseteq promised
  BY <1>2 DEF Track
<1>3. CASE Track /\ CallRefresh
  BY <1>2, <1>3 DEF CallRefresh, Begin, requestVars, MInv, MaskTypeOK, MaskedInv
<1>4. CASE Track /\ RefreshStep
  <2>1. /\ UNCHANGED <<fail, original, texts, k, counts, masks>>
        /\ stage' \in {"substitute", "refresh", "error"}
        /\ pc' # "idle" => stage' = "refresh"
    BY <1>4 DEF RefreshStep, requestVars, Undecodable
  <2> QED
    BY <1>2, <1>4, <2>1 DEF MInv, MaskTypeOK, MaskedInv
<1>5. CASE Track /\ Send
  <2>1. masks' \in [Values -> Nat]
    BY <1>5 DEF Send, Nothing, MInv, MaskTypeOK
  <2> QED
    BY <1>2, <1>5, <2>1 DEF Send, vars, MInv, MaskTypeOK, MaskedInv
<1>6. CASE Track /\ GiveUp
  BY <1>2, <1>6 DEF GiveUp, vars, requestVars, MInv, MaskTypeOK, MaskedInv
<1>7. CASE Elsewhere
  BY <1>2, <1>7 DEF Elsewhere, requestVars, MInv, MaskTypeOK, MaskedInv
<1>8. CASE Edit
  BY <1>2, <1>8 DEF Edit, Save, RemoveFile, requestVars, MInv, MaskTypeOK, MaskedInv
<1>9. CASE TimePasses
  BY <1>2, <1>9 DEF TimePasses, Tick, requestVars, MInv, MaskTypeOK, MaskedInv
<1>10. CASE UNCHANGED maskVars
  BY <1>10 DEF maskVars, hookVars, vars, MInv, MaskTypeOK, MaskedInv
<1> QED
  BY <1>1, <1>3, <1>4, <1>5, <1>6, <1>7, <1>8, <1>9, <1>10 DEF MaskNext, HookStep

LEMMA NextMInv ==
  ASSUME MInv, [MaskNext]_maskVars
  PROVE  MInv'
<1>1. IInv'
  BY StepOfList, NextIInv DEF MInv
<1>2. PromiseInv'
  BY StepPromise
<1>3. MaskTypeOK' /\ MaskedInv'
  BY StepKeepsStrings, SubstituteMasks
<1> QED
  BY <1>1, <1>2, <1>3 DEF MInv

(* The list keeps its promise under any use of it by requests: no file     *)
(* that is as it was at the last parse, and was read to its end then, has  *)
(* a value that is not masked.                                             *)
THEOREM ListStaysCurrent == MaskSpec => []NothingUnmasked
<1>1. MaskInit => MInv
  BY InitMInv
<1>2. MInv /\ [MaskNext]_maskVars => MInv'
  BY NextMInv
<1>3. MInv => NothingUnmasked
  BY DEF MInv, IInv
<1> QED
  BY <1>1, <1>2, <1>3, PTL DEF MaskSpec

(* No request of any length leaves with a value that the list had when its *)
(* masking began, whatever is edited and refreshed between its strings,    *)
(* and in closed mode not after a refresh that raised either; but for the  *)
(* values of files that were edited, or that a refresh meanwhile failed to *)
(* stat or to read, of which the code says nothing.                        *)
THEOREM NothingPromisedIsSent == MaskSpec => []PromisedNotSent
<1>1. MaskInit => MInv
  BY InitMInv
<1>2. MInv /\ [MaskNext]_maskVars => MInv'
  BY NextMInv
<1>3. MInv => PromisedNotSent
  <2> SUFFICES ASSUME MInv, NEW i \in 1..Len(texts), NEW v \in promised,
                      stage = "sent" \/ (stage = "sent_open" /\ fail = "closed")
               PROVE  texts[i][v] = 0
    BY DEF PromisedNotSent
  <2>1. k > Len(texts) /\ k \in Nat /\ Len(texts) \in Nat
    BY DEF MInv, MaskedInv, MaskTypeOK
  <2> QED
    BY <2>1 DEF MInv, MaskedInv
<1> QED
  BY <1>1, <1>2, <1>3, PTL DEF MaskSpec
-----------------------------------------------------------------------------
(***************************************************************************)
(* What is counted.                                                        *)
(***************************************************************************)

(* f counts the occurrences of v in the first 0 to m strings of s: the     *)
(* recursive function inside Tally.                                        *)
Tallies(f, s, v, m) == f = [n \in 0..m |-> IF n = 0 THEN 0 ELSE f[n - 1] + s[n][v]]

(* The function exists, for any number of strings.                         *)
LEMMA TalliesExists ==
  ASSUME NEW s, NEW v, NEW m \in Nat
  PROVE  \E f : Tallies(f, s, v, m)
<1> DEFINE T == {n \in Nat : \E f : Tallies(f, s, v, n)}
<1>1. 0 \in T
  <2> DEFINE g == [i \in 0..0 |-> 0]
  <2>1. \A i \in 0..0 : i = 0
    OBVIOUS
  <2>2. Tallies(g, s, v, 0)
    BY <2>1 DEF Tallies
  <2> QED
    BY <2>2
<1>2. ASSUME NEW n \in Nat, n \in T PROVE n + 1 \in T
  <2>1. PICK f : Tallies(f, s, v, n)
    BY <1>2
  <2> DEFINE g == [i \in 0..(n + 1) |->
                     IF i \in 0..n THEN f[i] ELSE IF i = 0 THEN 0 ELSE f[i - 1] + s[i][v]]
  <2>2. \A i \in 0..n : f[i] = IF i = 0 THEN 0 ELSE f[i - 1] + s[i][v]
    BY <2>1 DEF Tallies
  <2>3. \A i \in 0..(n + 1) : i # 0 => i - 1 \in 0..n /\ g[i - 1] = f[i - 1]
    OBVIOUS
  <2>4. \A i \in 0..(n + 1) : g[i] = IF i = 0 THEN 0 ELSE g[i - 1] + s[i][v]
    BY <2>2, <2>3
  <2>5. Tallies(g, s, v, n + 1)
    <3> HIDE DEF g
    <3>1. g = [i \in 0..(n + 1) |-> g[i]]
      BY DEF g
    <3> QED
      BY <3>1, <2>4 DEF Tallies
  <2> QED
    BY <2>5
<1> HIDE DEF T
<1>3. Nat \subseteq T
  BY <1>1, <1>2, SetInduction
<1> QED
  BY <1>3 DEF T

(* The first n strings have what the first n - 1 and the n-th have.        *)
LEMMA TallyEntry ==
  ASSUME NEW s \in Seq(String), NEW v \in Values
  PROVE  /\ Tally(s, v)[0] = 0
         /\ \A n \in 1..Len(s) : Tally(s, v)[n] = Tally(s, v)[n - 1] + s[n][v]
<1> DEFINE h == CHOOSE f : f = [n \in 0..Len(s) |-> IF n = 0 THEN 0 ELSE f[n - 1] + s[n][v]]
<1>1. \E f : f = [n \in 0..Len(s) |-> IF n = 0 THEN 0 ELSE f[n - 1] + s[n][v]]
  <2>1. Len(s) \in Nat
    OBVIOUS
  <2>2. \E f : Tallies(f, s, v, Len(s))
    BY <2>1, TalliesExists, Zenon
  <2> QED
    BY <2>2 DEF Tallies
<1>2. h = [n \in 0..Len(s) |-> IF n = 0 THEN 0 ELSE h[n - 1] + s[n][v]]
  BY <1>1, Zenon
<1>3. Tally(s, v) = h
  BY DEF Tally
<1> HIDE DEF h
<1>4. Len(s) \in Nat /\ 0 \in 0..Len(s)
  OBVIOUS
<1>5. \A n \in 0..Len(s) : h[n] = IF n = 0 THEN 0 ELSE h[n - 1] + s[n][v]
  BY <1>2
<1>6. \A n \in 1..Len(s) : n \in 0..Len(s) /\ n # 0
  OBVIOUS
<1> QED
  BY <1>3, <1>4, <1>5, <1>6

(* It is a number, and two requests that agree up to n agree on it.        *)
LEMMA TallyAgrees ==
  ASSUME NEW s \in Seq(String), NEW t \in Seq(String), NEW v \in Values, Len(s) = Len(t),
         NEW n \in 0..Len(s), \A i \in 1..Len(s) : i <= n => s[i] = t[i]
  PROVE  Tally(s, v)[n] \in Nat /\ Tally(s, v)[n] = Tally(t, v)[n]
<1> DEFINE T == {m \in Nat : m <= n => Tally(s, v)[m] \in Nat /\ Tally(s, v)[m] = Tally(t, v)[m]}
<1>1. 0 \in T
  BY TallyEntry
<1>2. ASSUME NEW m \in Nat, m \in T PROVE m + 1 \in T
  <2> SUFFICES ASSUME m + 1 <= n
               PROVE  /\ Tally(s, v)[m + 1] \in Nat
                      /\ Tally(s, v)[m + 1] = Tally(t, v)[m + 1]
    OBVIOUS
  <2>1. m + 1 \in 1..Len(s) /\ (m + 1) - 1 = m /\ m <= n
    OBVIOUS
  <2>2. Tally(s, v)[m] \in Nat /\ Tally(s, v)[m] = Tally(t, v)[m]
    BY <1>2, <2>1
  <2>3. s[m + 1] = t[m + 1] /\ s[m + 1] \in String
    BY <2>1
  <2>4. s[m + 1][v] \in Nat
    BY <2>3 DEF String
  <2>5. Tally(s, v)[m + 1] = Tally(s, v)[m] + s[m + 1][v]
    BY <2>1, TallyEntry
  <2>6. Tally(t, v)[m + 1] = Tally(t, v)[m] + t[m + 1][v]
    BY <2>1, TallyEntry
  <2> QED
    BY <2>2, <2>3, <2>4, <2>5, <2>6
<1> HIDE DEF T
<1>3. Nat \subseteq T
  BY <1>1, <1>2, SetInduction
<1>4. n \in T
  BY <1>3
<1> QED
  BY <1>4 DEF T

(* Nothing of the strings still to come is masked; of those before, what   *)
(* is gone is what is counted; and that is recorded, or nothing.           *)
CountInv ==
  /\ original \in Seq(String)
  /\ \A i \in 1..Len(texts) : i >= k => texts[i] = original[i]
  /\ \A v \in Values : Tally(original, v)[k - 1] = counts[v] + Tally(texts, v)[k - 1]
  /\ stage = "idle" => counts = Nothing
  /\ stage = "sent" => masks \in {counts, Nothing}

(* One string is masked.                                                   *)
LEMMA SubstituteCounts ==
  ASSUME MInv, CountInv, Substitute, MaskTypeOK'
  PROVE  CountInv'
<1>1. /\ k \in 1..Len(texts) /\ texts \in Seq(String) /\ original \in Seq(String)
      /\ Len(texts) \in Nat /\ Len(original) = Len(texts)
      /\ texts' = [texts EXCEPT ![k] = Masked(texts[k])]
      /\ counts' = Counted(texts[k])
      /\ k' = k + 1 /\ stage' = "mask" /\ UNCHANGED <<fail, original, masks>>
  BY DEF Substitute, MInv, MaskTypeOK, CountInv, requestVars
<1>2. texts' \in Seq(String) /\ Len(texts') = Len(texts)
  BY <1>1 DEF MaskTypeOK
<1>3. /\ \A i \in 1..Len(texts) : i # k => texts'[i] = texts[i]
      /\ texts'[k] = Masked(texts[k]) /\ texts[k] = original[k] /\ texts[k] \in String
  BY <1>1 DEF CountInv
<1>4. ASSUME NEW v \in Values
      PROVE  Tally(original, v)[k] = counts'[v] + Tally(texts', v)[k]
  <2>1. Tally(original, v)[k] = Tally(original, v)[k - 1] + texts[k][v]
    BY <1>1, <1>3, TallyEntry
  <2>2. Tally(texts', v)[k] = Tally(texts', v)[k - 1] + texts'[k][v]
    BY <1>1, <1>2, TallyEntry
  <2>3. Tally(texts, v)[k - 1] \in Nat /\ Tally(texts, v)[k - 1] = Tally(texts', v)[k - 1]
    <3>1. k - 1 \in 0..Len(texts) /\ \A i \in 1..Len(texts) : i <= k - 1 => texts[i] = texts'[i]
      BY <1>1, <1>3
    <3> QED
      BY <1>1, <1>2, <3>1, TallyAgrees
  <2>4. Tally(original, v)[k - 1] = counts[v] + Tally(texts, v)[k - 1]
    BY DEF CountInv
  <2>5. counts[v] \in Nat /\ texts[k][v] \in Nat
    BY <1>3 DEF MInv, MaskTypeOK, String
  <2>6. counts'[v] + texts'[k][v] = counts[v] + texts[k][v]
    BY <1>1, <1>3, <2>5 DEF Counted, Masked
  <2>7. counts'[v] \in Nat /\ texts'[k][v] \in Nat
    BY <1>1, <1>3, <2>5 DEF Counted, Masked
  <2> QED
    BY <2>1, <2>2, <2>3, <2>4, <2>5, <2>6, <2>7
<1>5. \A i \in 1..Len(texts') : i >= k' => texts'[i] = original'[i]
  <2>1. \A i \in 1..Len(texts) : i >= k + 1 => i # k /\ i >= k
    BY <1>1
  <2> QED
    BY <1>1, <1>2, <1>3, <2>1 DEF CountInv
<1>6. k' - 1 = k
  BY <1>1
<1> QED
  BY <1>1, <1>4, <1>5, <1>6 DEF CountInv

(* A request arrives: nothing of it is masked.                             *)
LEMMA ArriveCounts ==
  ASSUME MInv, CountInv, NEW r \in Requests, Arrive(r)
  PROVE  CountInv'
<1>1. r \in Seq(String) /\ k = 1 /\ stage' = "mask" /\ counts = Nothing
      /\ original' = r /\ texts' = r /\ UNCHANGED <<k, counts, masks>>
  BY RequestsAssumption DEF Arrive, MInv, MaskedInv, CountInv
<1>2. \A v \in Values : Tally(r, v)[0] = 0 /\ counts[v] = 0
  BY <1>1, TallyEntry DEF Nothing
<1> QED
  BY <1>1, <1>2 DEF CountInv

LEMMA NextCounts ==
  ASSUME MInv, CountInv, [MaskNext]_maskVars, MInv'
  PROVE  CountInv'
<1>1. CASE \E r \in Requests : Arrive(r)
  BY <1>1, ArriveCounts
<1>2. CASE Substitute
  BY <1>2, SubstituteCounts DEF MInv
<1>3. ASSUME UNCHANGED <<original, texts, k, counts>>,
             stage' = "idle" => stage = "idle",
             stage' = "sent" => masks' \in {counts, Nothing}
      PROVE  CountInv'
  BY <1>3 DEF CountInv
<1>4. CASE CallRefresh \/ RefreshStep \/ GiveUp
  BY <1>3, <1>4 DEF CallRefresh, RefreshStep, GiveUp, requestVars
<1>5. CASE Send
  BY <1>3, <1>5 DEF Send
<1>6. CASE Elsewhere \/ Edit \/ TimePasses
  BY <1>3, <1>6 DEF Elsewhere, Edit, TimePasses, requestVars, CountInv
<1>7. CASE UNCHANGED maskVars
  BY <1>3, <1>7 DEF maskVars, hookVars, CountInv
<1> QED
  BY <1>1, <1>2, <1>4, <1>5, <1>6, <1>7 DEF MaskNext, HookStep

(* What the ledger recorded of a request is what is gone from its strings, *)
(* value by value, with however many lists it was masked.                  *)
THEOREM LedgerCountsWhatIsGone == MaskSpec => []CountsMatch
<1>1. MaskInit => MInv /\ CountInv
  <2> SUFFICES ASSUME MaskInit PROVE CountInv
    BY InitMInv
  <2>1. /\ original = <<>> /\ texts = <<>> /\ k = 1 /\ counts = Nothing /\ stage = "idle"
        /\ <<>> \in Seq(String)
    BY DEF MaskInit
  <2>2. \A v \in Values : Tally(<<>>, v)[0] = 0 /\ counts[v] = 0
    BY <2>1, TallyEntry DEF Nothing
  <2> QED
    BY <2>1, <2>2 DEF CountInv
<1>2. MInv /\ CountInv /\ [MaskNext]_maskVars => MInv' /\ CountInv'
  BY NextMInv, NextCounts
<1>3. MInv /\ CountInv => CountsMatch
  <2> SUFFICES ASSUME MInv, CountInv, stage = "sent", masks # Nothing, NEW v \in Values
               PROVE  Occurrences(original, v) = masks[v] + Occurrences(texts, v)
    BY DEF CountsMatch
  <2>1. k - 1 = Len(texts) /\ Len(texts) = Len(original) /\ masks = counts
    BY DEF MInv, MaskedInv, MaskTypeOK, CountInv
  <2>2. Tally(original, v)[k - 1] = counts[v] + Tally(texts, v)[k - 1]
    BY DEF CountInv
  <2> QED
    BY <2>1, <2>2 DEF Occurrences
<1> QED
  BY <1>1, <1>2, <1>3, PTL DEF MaskSpec
=============================================================================
