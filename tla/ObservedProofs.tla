--------------------------- MODULE ObservedProofs ---------------------------
(***************************************************************************)
(* What the panel is shown of the servers, proved of ObservedSpec.         *)
(*                                                                         *)
(* Records: what holds of the records of workers and of those who read and *)
(* delete them, while servers with their heartbeats start, shut down and   *)
(* crash.                                                                  *)
(*                                                                         *)
(* Counters: they and the listeners on their way to them are compared with *)
(* the history of the servers.  A total over listeners or days is a fold   *)
(* over a set; the section on sums shows, by induction on the size of the  *)
(* set, what a step that changes one summand does to it.  Custody says     *)
(* that the job of a worker that is settled was not counted before.        *)
(***************************************************************************)
EXTENDS Observed, CustodyProofs

InquiryType == [pc : {"idle", "get", "del", "done"}, kind : {"show", "clean"},
                keys : SUBSET Workers, read : SUBSET Workers, old : SUBSET Workers,
                missing : SUBSET Workers, atRest : SUBSET Workers, failed : SUBSET Workers]

\* The type invariant of Registry.
RegistryTypeOK ==
    /\ heart \in [Workers -> {"beating", "clearing", "failed", "still"}]
    /\ beats \in [Workers -> Nat]
    /\ record \in [Workers -> {"none", "fresh", "old"}]
    /\ inquiry \in [Inquiries -> InquiryType]
    /\ widget \in {"mounted", "crashed"}

\* What an inquiry has still to read is read in one phase only.
KeysWhileReading == \A i \in Inquiries : inquiry[i].pc # "get" => inquiry[i].keys = {}

\* A server at rest writes no more.
Rests(w) == heart[w] \in {"still", "failed"} /\ beats[w] = 0

\* The record of one is gone, or still to be read, or read as old and still to
\* be deleted, or its DEL has failed.
RestsUntilRemoved ==
    \A i \in Inquiries : \A w \in inquiry[i].atRest :
        /\ Rests(w)
        /\ \/ record[w] = "none"
           \/ record[w] = "old" /\ w \in inquiry[i].keys \cup inquiry[i].old \cup inquiry[i].failed

\* What a cleanup is done with it has deleted, or tried to.
DoneWhenDeleted == \A i \in Inquiries : inquiry[i].pc = "done" => inquiry[i].old = {}

\* The inductive invariant.
RegistryInv == RegistryTypeOK /\ KeysWhileReading /\ RestsUntilRemoved /\ DoneWhenDeleted

-----------------------------------------------------------------------------
\* The inquiries do not notice that a record is written, grows old or goes, nor
\* what the servers that are not at rest do.
LEMMA KeptWhileWritten ==
    ASSUME RegistryInv, RegistryTypeOK', UNCHANGED inquiry,
           \A w \in Workers : Rests(w) =>
                /\ Rests(w)'
                /\ \/ record'[w] = "none"
                   \/ record[w] \in {"none", "old"} => record'[w] = record[w]
    PROVE  RegistryInv'
<1>1. \A i \in Inquiries : inquiry[i].atRest \subseteq Workers
  BY DEF RegistryInv, RegistryTypeOK, InquiryType
<1>2. KeysWhileReading' /\ DoneWhenDeleted'
  BY DEF RegistryInv, KeysWhileReading, DoneWhenDeleted
<1>3. RestsUntilRemoved'
  BY <1>1 DEF RegistryInv, RestsUntilRemoved
<1> QED BY <1>2, <1>3 DEF RegistryInv

\* One inquiry goes on to q; of the records some are deleted at most.
LEMMA KeptWhileAsked ==
    ASSUME RegistryInv, UNCHANGED <<heart, beats>>, widget' \in {"mounted", "crashed"},
           record' \in [Workers -> {"none", "fresh", "old"}],
           \A w \in Workers : record'[w] \in {"none", record[w]},
           NEW i \in Inquiries, NEW q \in InquiryType, inquiry' = [inquiry EXCEPT ![i] = q],
           q.pc # "get" => q.keys = {},
           \A w \in q.atRest :
                /\ Rests(w)
                /\ \/ record'[w] = "none"
                   \/ record'[w] = "old" /\ w \in q.keys \cup q.old \cup q.failed,
           q.pc = "done" => q.old = {}
    PROVE  RegistryInv'
<1>1. inquiry \in [Inquiries -> InquiryType]
  BY DEF RegistryInv, RegistryTypeOK
<1>2. inquiry'[i] = q /\ \A k \in Inquiries \ {i} : inquiry'[k] = inquiry[k]
  BY <1>1
<1>3. RegistryTypeOK'
  BY <1>1 DEF RegistryInv, RegistryTypeOK
<1>4. KeysWhileReading' /\ DoneWhenDeleted'
  BY <1>2 DEF RegistryInv, KeysWhileReading, DoneWhenDeleted
<1>5. RestsUntilRemoved'
  <2>1. \A w : Rests(w)' <=> Rests(w)
    BY DEF Rests
  <2>2. \A k \in Inquiries \ {i} : \A w \in inquiry[k].atRest :
            /\ w \in Workers /\ Rests(w)
            /\ \/ record'[w] = "none"
               \/ record'[w] = "old" /\ w \in inquiry[k].keys \cup inquiry[k].old \cup inquiry[k].failed
    BY <1>1 DEF RegistryInv, RestsUntilRemoved, InquiryType
  <2> QED BY <1>2, <2>1, <2>2 DEF RestsUntilRemoved
<1> QED BY <1>3, <1>4, <1>5 DEF RegistryInv

\* What holds of an inquiry that goes on, and of the records it looks at.
LEMMA KeptSoFar ==
    ASSUME RegistryInv, NEW i \in Inquiries
    PROVE  /\ inquiry[i] \in InquiryType /\ inquiry \in [Inquiries -> InquiryType]
           /\ record \in [Workers -> {"none", "fresh", "old"}] /\ widget \in {"mounted", "crashed"}
           /\ inquiry[i].pc # "get" => inquiry[i].keys = {}
           /\ \A w \in inquiry[i].atRest :
                /\ Rests(w)
                /\ \/ record[w] = "none"
                   \/ record[w] = "old" /\ w \in inquiry[i].keys \cup inquiry[i].old \cup inquiry[i].failed
BY DEF RegistryInv, RegistryTypeOK, KeysWhileReading, RestsUntilRemoved

LEMMA NoInquiryType == NoInquiry \in InquiryType
BY DEF NoInquiry, InquiryType

\* An inquiry that is over leaves nothing to keep.
LEMMA KeptWhenOver ==
    ASSUME RegistryInv, UNCHANGED <<heart, beats, record>>, widget' \in {"mounted", "crashed"},
           NEW i \in Inquiries, Over(i)
    PROVE  RegistryInv'
BY KeptWhileAsked, KeptSoFar, NoInquiryType DEF Over, NoInquiry

-----------------------------------------------------------------------------
(* Heartbeat *)

LEMMA KeptByBeats ==
    ASSUME RegistryInv, NEW w \in Workers,
           Beat(w) \/ UpdateWorkerInfo(w) \/ StopHeart(w) \/ BeatFault(w) \/ StopBeating(w) \/ Ages(w)
    PROVE  RegistryInv'
<1> USE DEF RegistryInv, RegistryTypeOK, Rests
<1>1. CASE Beat(w)
  BY <1>1, KeptWhileWritten DEF Beat
<1>2. CASE UpdateWorkerInfo(w)
  BY <1>2, KeptWhileWritten DEF UpdateWorkerInfo
<1>3. CASE StopHeart(w)
  BY <1>3, KeptWhileWritten DEF StopHeart
<1>4. CASE BeatFault(w)
  BY <1>4, KeptWhileWritten DEF BeatFault
<1>5. CASE StopBeating(w)
  BY <1>5, KeptWhileWritten DEF StopBeating
<1>6. CASE Ages(w)
  BY <1>6, KeptWhileWritten DEF Ages
<1> QED BY <1>1, <1>2, <1>3, <1>4, <1>5, <1>6

\* The record of a server that shuts down goes, if its DEL does not fail; the
\* server was not at rest.
LEMMA KeptByClear ==
    ASSUME RegistryInv, NEW w \in Workers, ClearWorkerInfo(w) \/ ClearFault(w)
    PROVE  RegistryInv'
<1>1. /\ heart[w] = "clearing" /\ UNCHANGED <<beats, inquiry, widget>>
      /\ heart' = [heart EXCEPT ![w] = "still"] \/ heart' = [heart EXCEPT ![w] = "failed"]
      /\ record' = record \/ record' = [record EXCEPT ![w] = "none"]
  BY DEF ClearWorkerInfo, ClearFault, Deleted
<1>2. RegistryTypeOK'
  BY <1>1 DEF RegistryInv, RegistryTypeOK
<1>3. \A x \in Workers : Rests(x) => Rests(x)' /\ record'[x] = record[x]
  BY <1>1 DEF Rests, RegistryInv, RegistryTypeOK
<1> QED BY <1>1, <1>2, <1>3, KeptWhileWritten

-----------------------------------------------------------------------------
(* Client and panel *)

LEMMA KeptByAsk ==
    ASSUME RegistryInv, NEW i \in Inquiries, NEW kind \in {"show", "clean"}, Ask(i, kind)
    PROVE  RegistryInv'
<1> DEFINE q == [NoInquiry EXCEPT !.pc = "get", !.kind = kind,
                    !.keys = {w \in Workers : record[w] # "none"},
                    !.atRest = {w \in Workers : heart[w] \in {"still", "failed"}
                                    /\ beats[w] = 0 /\ record[w] = "old"}]
<1>1. /\ q \in InquiryType /\ q.pc = "get" /\ q.keys = {w \in Workers : record[w] # "none"}
      /\ \A w \in q.atRest : w \in q.keys /\ record[w] = "old" /\ Rests(w)
  <2> DEFINE ks == {w \in Workers : record[w] # "none"}
             rs == {w \in Workers : heart[w] \in {"still", "failed"} /\ beats[w] = 0 /\ record[w] = "old"}
  <2>1. ks \subseteq Workers /\ rs \subseteq Workers /\ rs \subseteq ks
    OBVIOUS
  <2>2. \A w \in rs : record[w] = "old" /\ Rests(w)
    BY DEF Rests
  <2>3. q = [NoInquiry EXCEPT !.pc = "get", !.kind = kind, !.keys = ks, !.atRest = rs]
    OBVIOUS
  <2> HIDE DEF ks, rs, q
  <2>4. q \in InquiryType /\ q.pc = "get" /\ q.keys = ks /\ q.atRest = rs
    BY <2>1, <2>3 DEF NoInquiry, InquiryType
  <2> QED BY <2>1, <2>2, <2>4 DEF ks
<1>2. inquiry' = [inquiry EXCEPT ![i] = q] /\ UNCHANGED <<heart, beats, record, widget>>
  BY DEF Ask
<1> HIDE DEF q
<1> QED BY <1>1, <1>2, KeptSoFar, KeptWhileAsked

\* A record that is read goes from those to be read to those read as old, unless
\* it is fresh or gone.
LEMMA KeptByGet ==
    ASSUME RegistryInv, NEW i \in Inquiries, NEW w \in Workers, GetOne(i, w)
    PROVE  RegistryInv'
<1> DEFINE o == inquiry[i]
           q == [o EXCEPT !.keys = @ \ {w}, !.read = @ \cup {w},
                    !.missing = IF record[w] = "none" THEN @ \cup {w} ELSE @,
                    !.old = IF record[w] = "old" THEN @ \cup {w} ELSE @]
<1>1. o.pc = "get" /\ w \in o.keys /\ o \in InquiryType
  BY KeptSoFar DEF GetOne
<1>2. inquiry' = [inquiry EXCEPT ![i] = q] /\ UNCHANGED <<heart, beats, record, widget>>
  BY KeptSoFar DEF GetOne
<1>3. /\ q \in InquiryType /\ q.pc = "get" /\ q.keys = o.keys \ {w} /\ q.atRest = o.atRest
      /\ q.old = IF record[w] = "old" THEN o.old \cup {w} ELSE o.old
      /\ q.failed = o.failed
  <2> HIDE DEF o
  <2> QED BY <1>1 DEF InquiryType
<1>4. \A x \in o.atRest : /\ Rests(x)
                          /\ record[x] = "none" \/ (record[x] = "old" /\ x \in o.keys \cup o.old \cup o.failed)
  BY KeptSoFar
<1> HIDE DEF q, o
<1>5. \A x \in q.atRest : /\ Rests(x)
                          /\ record[x] = "none" \/ (record[x] = "old" /\ x \in q.keys \cup q.old \cup q.failed)
  BY <1>3, <1>4
<1> QED BY <1>2, <1>3, <1>5, KeptSoFar, KeptWhileAsked

\* A cleanup goes from reading to deleting, and is done when nothing is left.
LEMMA KeptByTurn ==
    ASSUME RegistryInv, NEW i \in Inquiries, NEW pc \in {"del", "done"},
           inquiry' = [inquiry EXCEPT ![i].pc = pc], UNCHANGED <<heart, beats, record, widget>>,
           inquiry[i].keys = {}, pc = "done" => inquiry[i].old = {}
    PROVE  RegistryInv'
<1> DEFINE o == inquiry[i]
           q == [o EXCEPT !.pc = pc]
<1>1. inquiry' = [inquiry EXCEPT ![i] = q]
  BY KeptSoFar
<1>2. /\ q \in InquiryType /\ q.pc = pc /\ q.keys = o.keys /\ q.atRest = o.atRest /\ q.old = o.old
      /\ q.failed = o.failed
  BY KeptSoFar DEF InquiryType
<1>3. \A x \in o.atRest : /\ Rests(x)
                          /\ record[x] = "none" \/ (record[x] = "old" /\ x \in o.keys \cup o.old \cup o.failed)
  BY KeptSoFar
<1> HIDE DEF q
<1>4. \A x \in q.atRest : /\ Rests(x)
                          /\ record[x] = "none" \/ (record[x] = "old" /\ x \in q.keys \cup q.old \cup q.failed)
  BY <1>2, <1>3
<1>5. (q.pc # "get" => q.keys = {}) /\ (q.pc = "done" => q.old = {}) /\ q \in InquiryType
  BY <1>2
<1>6. record \in [Workers -> {"none", "fresh", "old"}] /\ widget \in {"mounted", "crashed"}
  BY KeptSoFar
<1> QED BY <1>1, <1>4, <1>5, <1>6, KeptWhileAsked

\* A DEL of a cleanup: the record is gone, or the worker among those that failed.
LEMMA KeptByDel ==
    ASSUME RegistryInv, NEW i \in Inquiries, NEW w \in Workers, DelOne(i, w) \/ DelFault(i, w)
    PROVE  RegistryInv'
<1> DEFINE o == inquiry[i]
           q == inquiry'[i]
<1>1. o.pc = "del" /\ UNCHANGED <<heart, beats, widget>>
  BY DEF DelOne, DelFault
<1>2. \/ record' = [record EXCEPT ![w] = "none"] /\ inquiry' = [inquiry EXCEPT ![i].old = @ \ {w}]
      \/ /\ record' = record \/ record' = [record EXCEPT ![w] = "none"]
         /\ inquiry' = [inquiry EXCEPT ![i].old = @ \ {w}, ![i].failed = @ \cup {w}]
  BY DEF DelOne, DelFault, Deleted
<1>3. /\ q \in InquiryType /\ inquiry' = [inquiry EXCEPT ![i] = q]
      /\ q.pc = o.pc /\ q.keys = o.keys /\ q.atRest = o.atRest
      /\ q.old = o.old \ {w} /\ o.failed \subseteq q.failed
      /\ w \in q.failed \/ record' = [record EXCEPT ![w] = "none"]
  <2>1. CASE record' = [record EXCEPT ![w] = "none"] /\ inquiry' = [inquiry EXCEPT ![i].old = @ \ {w}]
    <3>1. o \in InquiryType /\ q = [o EXCEPT !.old = @ \ {w}] /\ inquiry' = [inquiry EXCEPT ![i] = q]
      BY <2>1, KeptSoFar
    <3> HIDE DEF q, o
    <3> QED BY <2>1, <3>1 DEF InquiryType
  <2>2. CASE inquiry' = [inquiry EXCEPT ![i].old = @ \ {w}, ![i].failed = @ \cup {w}]
    <3>1. /\ o \in InquiryType /\ inquiry' = [inquiry EXCEPT ![i] = q]
          /\ q = [o EXCEPT !.old = @ \ {w}, !.failed = @ \cup {w}]
      BY <2>2, KeptSoFar
    <3> HIDE DEF q, o
    <3> QED BY <2>2, <3>1 DEF InquiryType
  <2> QED BY <1>2, <2>1, <2>2
<1>4. /\ record' \in [Workers -> {"none", "fresh", "old"}]
      /\ \A x \in Workers : record'[x] \in {"none", record[x]}
  BY <1>2, KeptSoFar
<1>5. /\ o.atRest \subseteq Workers /\ o.keys = {}
      /\ \A x \in o.atRest : /\ Rests(x)
                             /\ record[x] = "none" \/ (record[x] = "old" /\ x \in o.old \cup o.failed)
  BY <1>1, KeptSoFar DEF InquiryType
<1>6. w \notin q.failed => record'[w] = "none"
  BY <1>3, KeptSoFar
<1> HIDE DEF q, o
<1>7. \A x \in q.atRest :
        /\ Rests(x)
        /\ record'[x] = "none" \/ (record'[x] = "old" /\ x \in q.keys \cup q.old \cup q.failed)
  <2> SUFFICES ASSUME NEW x \in q.atRest, record'[x] # "none"
               PROVE  Rests(x) /\ record'[x] = "old" /\ x \in q.old \cup q.failed
    BY <1>3, <1>5
  <2>1. x \in Workers /\ record'[x] = record[x] /\ record[x] = "old" /\ x \in o.old \cup o.failed
    BY <1>3, <1>4, <1>5
  <2> QED BY <1>3, <1>5, <1>6, <2>1
<1>8. q.pc # "get" /\ q.pc # "done" /\ q.keys = {}
  BY <1>1, <1>3, <1>5 DEF o
<1> QED BY <1>1, <1>3, <1>4, <1>7, <1>8, KeptSoFar, KeptWhileAsked

LEMMA KeptByInquiry ==
    ASSUME RegistryInv, NEW i \in Inquiries, InquiryStep(i)
    PROVE  RegistryInv'
<1>1. CASE \E kind \in {"show", "clean"} : Ask(i, kind)
  BY <1>1, KeptByAsk
<1>2. CASE \E w \in Workers : GetOne(i, w) \/ DelOne(i, w) \/ DelFault(i, w)
  BY <1>2, KeptByGet, KeptByDel
<1>3. CASE ShowWorkers(i) \/ GetFault(i)
  <2>1. widget' \in {"mounted", "crashed"}
    BY <1>3, KeptSoFar DEF ShowWorkers, GetFault
  <2> QED BY <1>3, <2>1, KeptWhenOver DEF ShowWorkers, GetFault
<1>4. CASE CleanOld(i)
  <2>1. widget' \in {"mounted", "crashed"}
    BY <1>4, KeptSoFar DEF CleanOld
  <2> QED BY <1>4, <2>1, KeptWhenOver, KeptByTurn DEF CleanOld
<1>5. CASE CleanDone(i)
  <2>1. inquiry[i].keys = {}
    BY <1>5, KeptSoFar DEF CleanDone
  <2> QED BY <1>5, <2>1, KeptByTurn DEF CleanDone
<1>6. CASE Cleaned(i)
  <2>1. widget' \in {"mounted", "crashed"}
    BY <1>6, KeptSoFar DEF Cleaned
  <2> QED BY <1>6, <2>1, KeptWhenOver DEF Cleaned
<1> QED BY <1>1, <1>2, <1>3, <1>4, <1>5, <1>6 DEF InquiryStep

-----------------------------------------------------------------------------
LEMMA RegistryStart == ObservedInit => RegistryInv
<1> SUFFICES ASSUME ObservedInit PROVE RegistryInv
  OBVIOUS
<1>1. RegistryTypeOK
  BY NoInquiryType DEF ObservedInit, RegistryInit, RegistryTypeOK
<1>2. \A i \in Inquiries : inquiry[i] = NoInquiry
  BY DEF ObservedInit, RegistryInit
<1> QED BY <1>1, <1>2 DEF RegistryInv, KeysWhileReading, RestsUntilRemoved, DoneWhenDeleted, NoInquiry

LEMMA RegistryUntouched ==
    ASSUME RegistryInv, UNCHANGED registryVars
    PROVE  RegistryInv'
BY DEF registryVars, RegistryInv, RegistryTypeOK, KeysWhileReading, RestsUntilRemoved, Rests,
       DoneWhenDeleted

\* Servers and panel touch the records in these ways only.
LEMMA RegistrySteps ==
    ASSUME [ObservedNext]_observedVars
    PROVE  \/ UNCHANGED registryVars
           \/ \E w \in Workers : \/ Beat(w) \/ UpdateWorkerInfo(w) \/ StopHeart(w) \/ BeatFault(w)
                                 \/ StopBeating(w) \/ Ages(w)
                                 \/ ClearWorkerInfo(w) \/ ClearFault(w)
           \/ \E i \in Inquiries : InquiryStep(i)
<1>1. Servers \subseteq Workers
  BY ObservedAssumption
<1>2. CASE UNCHANGED observedVars
  BY <1>2 DEF observedVars
<1>3. CASE ObservedServer \/ \E r \in Runs : ObservedStart(r)
  BY <1>3 DEF ObservedServer, ObservedStart
<1>4. CASE \E s \in Servers : ObservedFinish(s) \/ ObservedDone(s) \/ Listening(s)
  BY <1>4 DEF ObservedFinish, ObservedDone, Listening
<1>5. CASE \E s \in Servers : HeartBeats(s) \/ CleanUpPlugins(s) \/ ObservedGone(s) \/ PluginFault(s)
  BY <1>1, <1>5 DEF HeartBeats, CleanUpPlugins, ObservedGone, PluginFault
<1>6. CASE Panel
  BY <1>6 DEF Panel
<1> QED BY <1>2, <1>3, <1>4, <1>5, <1>6 DEF ObservedNext

LEMMA RegistryHolds == ObservedSpec => []RegistryInv
<1>1. RegistryInv /\ [ObservedNext]_observedVars => RegistryInv'
  BY RegistrySteps, RegistryUntouched, KeptByBeats, KeptByClear, KeptByInquiry
<1> QED BY <1>1, RegistryStart, PTL DEF ObservedSpec

\* cleanUpDeadWorkers, when it answers, has removed the record of every server
\* that was dead and 15 seconds old when it began, but for those whose own DEL
\* failed: one that fails stops none of the others.
THEOREM DeadAreRemoved == ObservedSpec => []CleanupRemovesTheDead
<1>1. RegistryInv => CleanupRemovesTheDead
  BY DEF RegistryInv, KeysWhileReading, RestsUntilRemoved, DoneWhenDeleted, CleanupRemovesTheDead
<1> QED BY <1>1, RegistryHolds, PTL

-----------------------------------------------------------------------------
(* Sums over finite sets *)

\* The member that is added up first.
Chosen(s) == CHOOSE x \in s : TRUE

LEMMA ChosenSmaller ==
    ASSUME NEW S, IsFiniteSet(S), S # {}
    PROVE  /\ Chosen(S) \in S /\ IsFiniteSet(S \ {Chosen(S)})
           /\ Cardinality(S) \in Nat /\ Cardinality(S) > 0
           /\ Cardinality(S \ {Chosen(S)}) = Cardinality(S) - 1
<1>1. Chosen(S) \in S
  BY DEF Chosen
<1>2. Cardinality(S) \in Nat /\ Cardinality(S) # 0
  BY FS_CardinalityType, FS_EmptySet
<1>3. IsFiniteSet(S \ {Chosen(S)}) /\ Cardinality(S \ {Chosen(S)}) = Cardinality(S) - 1
  BY <1>1, FS_RemoveElement
<1> QED BY <1>1, <1>2, <1>3

\* Induction over the finite sets, in the order in which a sum goes through one.
LEMMA EverySubset ==
    ASSUME NEW S, IsFiniteSet(S), NEW Good, {} \in Good,
           \A s \in SUBSET S : s # {} /\ s \ {Chosen(s)} \in Good => s \in Good
    PROVE  SUBSET S \subseteq Good
<1> DEFINE Reached == {n \in Nat : \A s \in SUBSET S : Cardinality(s) = n => s \in Good}
<1>1. \A s \in SUBSET S : IsFiniteSet(s) /\ Cardinality(s) \in Nat
  BY FS_Subset, FS_CardinalityType
<1>2. 0 \in Reached
  BY <1>1, FS_EmptySet
<1>3. ASSUME NEW n \in Nat, n \in Reached PROVE n + 1 \in Reached
  <2> SUFFICES ASSUME NEW s \in SUBSET S, Cardinality(s) = n + 1 PROVE s \in Good
    OBVIOUS
  <2>1. s # {}
    BY FS_EmptySet
  <2>2. Cardinality(s \ {Chosen(s)}) = n
    BY <1>1, <2>1, ChosenSmaller
  <2>3. s \ {Chosen(s)} \in Good
    BY <1>3, <2>2
  <2> QED BY <2>1, <2>3
<1> HIDE DEF Reached
<1>4. Nat \subseteq Reached
  BY <1>2, <1>3, EveryNumber
<1> USE DEF Reached
<1> QED BY <1>1, <1>4

\* What the sums over the subsets of S are when they are added up in that order.
Adds(it, f, S) ==
    it = [s \in SUBSET S |-> IF s = {} THEN 0 ELSE f[Chosen(s)] + it[s \ {Chosen(s)}]]

\* There are such sums.
LEMMA SumsExist ==
    ASSUME NEW S, IsFiniteSet(S), NEW f
    PROVE  \E it : Adds(it, f, S)
<1> DEFINE More(it) == [s \in SUBSET S |-> IF s = {} THEN 0 ELSE f[Chosen(s)] + it[s \ {Chosen(s)}]]
           Upto(it, n) == \A s \in SUBSET S : Cardinality(s) <= n => it[s] = More(it)[s]
           Reached == {n \in Nat : \E it : it = [s \in SUBSET S |-> it[s]] /\ Upto(it, n)}
<1>1. \A s \in SUBSET S : IsFiniteSet(s) /\ Cardinality(s) \in Nat
  BY FS_Subset, FS_CardinalityType
<1>2. 0 \in Reached
  <2> DEFINE it == [s \in SUBSET S |-> 0]
  <2>1. Upto(it, 0)
    BY <1>1, FS_EmptySet
  <2>2. it = [s \in SUBSET S |-> it[s]]
    OBVIOUS
  <2> HIDE DEF it, Upto
  <2> QED BY <2>1, <2>2
<1>3. ASSUME NEW n \in Nat, n \in Reached PROVE n + 1 \in Reached
  <2>1. PICK it : it = [s \in SUBSET S |-> it[s]] /\ Upto(it, n)
    BY <1>3
  <2>2. ASSUME NEW s \in SUBSET S, Cardinality(s) <= n + 1 PROVE More(it)[s] = More(More(it))[s]
    <3>1. CASE s = {}
      BY <3>1
    <3>2. CASE s # {}
      <4> DEFINE t == s \ {Chosen(s)}
      <4>1. t \in SUBSET S /\ Cardinality(t) <= n
        BY <1>1, <2>2, <3>2, ChosenSmaller
      <4>2. it[t] = More(it)[t]
        BY <2>1, <4>1
      <4>3. More(it)[s] = f[Chosen(s)] + it[t] /\ More(More(it))[s] = f[Chosen(s)] + More(it)[t]
        BY <3>2
      <4> HIDE DEF t, More
      <4> QED BY <4>2, <4>3
    <3> QED BY <3>1, <3>2
  <2>3. Upto(More(it), n + 1)
    <3> HIDE DEF More
    <3> QED BY <2>2
  <2>4. More(it) = [s \in SUBSET S |-> More(it)[s]]
    OBVIOUS
  <2> HIDE DEF More, Upto
  <2> QED BY <2>3, <2>4
<1>4. Cardinality(S) \in Reached
  <2> HIDE DEF Reached
  <2> QED BY <1>1, <1>2, <1>3, EveryNumber
<1>5. PICK it : it = [s \in SUBSET S |-> it[s]] /\ Upto(it, Cardinality(S))
  BY <1>4
<1>6. \A s \in SUBSET S : Cardinality(s) <= Cardinality(S)
  BY FS_Subset
<1>7. \A s \in SUBSET S : it[s] = More(it)[s]
  BY <1>5, <1>6
<1>8. it = More(it)
  BY <1>5, <1>7
<1> QED BY <1>8 DEF Adds

\* SumFunctionOnSet is one of them.
LEMMA SumAdds ==
    ASSUME NEW S, IsFiniteSet(S), NEW f
    PROVE  \E it : Adds(it, f, S) /\ SumFunctionOnSet(f, S) = it[S]
<1> DEFINE it == CHOOSE i : Adds(i, f, S)
<1>1. SumFunctionOnSet(f, S) = it[S]
  BY DEF SumFunctionOnSet, FoldFunctionOnSet, MapThenFoldSet, Adds, Chosen
<1>2. Adds(it, f, S)
  BY SumsExist
<1> QED BY <1>1, <1>2

\* Sums of numbers are numbers.
LEMMA SumType ==
    ASSUME NEW S, IsFiniteSet(S), NEW f, \A x \in S : f[x] \in Int
    PROVE  SumFunctionOnSet(f, S) \in Int
<1>1. PICK it : Adds(it, f, S) /\ SumFunctionOnSet(f, S) = it[S]
  BY SumAdds
<1> DEFINE Good == {s \in SUBSET S : it[s] \in Int}
<1>2. {} \in Good
  BY <1>1 DEF Adds
<1>3. ASSUME NEW s \in SUBSET S, s # {}, s \ {Chosen(s)} \in Good PROVE s \in Good
  <2>1. it[s] = f[Chosen(s)] + it[s \ {Chosen(s)}]
    BY <1>1, <1>3 DEF Adds
  <2>2. Chosen(s) \in S
    BY <1>3 DEF Chosen
  <2> QED BY <1>3, <2>1, <2>2
<1> HIDE DEF Good
<1>4. S \in Good
  BY <1>2, <1>3, EverySubset
<1> QED BY <1>1, <1>4 DEF Good

\* Where no summand of f is above that of g, the sum is not.
LEMMA SumUpTo ==
    ASSUME NEW S, IsFiniteSet(S), NEW f, NEW g, \A x \in S : f[x] \in Int /\ g[x] \in Int /\ f[x] <= g[x]
    PROVE  SumFunctionOnSet(f, S) <= SumFunctionOnSet(g, S)
<1>1. PICK it : Adds(it, f, S) /\ SumFunctionOnSet(f, S) = it[S]
  BY SumAdds
<1>2. PICK jt : Adds(jt, g, S) /\ SumFunctionOnSet(g, S) = jt[S]
  BY SumAdds
<1> DEFINE Good == {s \in SUBSET S : it[s] \in Int /\ jt[s] \in Int /\ it[s] <= jt[s]}
<1>3. {} \in Good
  BY <1>1, <1>2 DEF Adds
<1>4. ASSUME NEW s \in SUBSET S, s # {}, s \ {Chosen(s)} \in Good PROVE s \in Good
  <2>1. it[s] = f[Chosen(s)] + it[s \ {Chosen(s)}] /\ jt[s] = g[Chosen(s)] + jt[s \ {Chosen(s)}]
    BY <1>1, <1>2, <1>4 DEF Adds
  <2>2. Chosen(s) \in S
    BY <1>4 DEF Chosen
  <2> QED BY <1>4, <2>1, <2>2
<1> HIDE DEF Good
<1>5. S \in Good
  BY <1>3, <1>4, EverySubset
<1> QED BY <1>1, <1>2, <1>5 DEF Good

\* One summand makes the difference between two sums.
LEMMA SumMoves ==
    ASSUME NEW S, IsFiniteSet(S), NEW f, NEW g, NEW y \in S, NEW d \in Int,
           \A x \in S : f[x] \in Int /\ g[x] = IF x = y THEN f[x] + d ELSE f[x]
    PROVE  SumFunctionOnSet(g, S) = SumFunctionOnSet(f, S) + d
<1>1. PICK it : Adds(it, f, S) /\ SumFunctionOnSet(f, S) = it[S]
  BY SumAdds
<1>2. PICK jt : Adds(jt, g, S) /\ SumFunctionOnSet(g, S) = jt[S]
  BY SumAdds
<1> DEFINE Good == {s \in SUBSET S : it[s] \in Int /\ jt[s] = IF y \in s THEN it[s] + d ELSE it[s]}
<1>3. {} \in Good
  BY <1>1, <1>2 DEF Adds
<1>4. ASSUME NEW s \in SUBSET S, s # {}, s \ {Chosen(s)} \in Good PROVE s \in Good
  <2>1. it[s] = f[Chosen(s)] + it[s \ {Chosen(s)}] /\ jt[s] = g[Chosen(s)] + jt[s \ {Chosen(s)}]
    BY <1>1, <1>2, <1>4 DEF Adds
  <2>2. Chosen(s) \in s
    BY <1>4 DEF Chosen
  <2> QED BY <1>4, <2>1, <2>2
<1> HIDE DEF Good
<1>5. S \in Good
  BY <1>3, <1>4, EverySubset
<1> QED BY <1>1, <1>2, <1>5 DEF Good

\* The sum says what it says of the summands alone.
LEMMA SumSame ==
    ASSUME NEW S, IsFiniteSet(S), NEW f, NEW g, \A x \in S : f[x] \in Int /\ g[x] = f[x]
    PROVE  SumFunctionOnSet(g, S) = SumFunctionOnSet(f, S)
<1>1. SumFunctionOnSet(g, S) <= SumFunctionOnSet(f, S) /\ SumFunctionOnSet(f, S) <= SumFunctionOnSet(g, S)
  BY SumUpTo
<1>2. SumFunctionOnSet(g, S) \in Int /\ SumFunctionOnSet(f, S) \in Int
  BY SumType
<1> QED BY <1>1, <1>2

LEMMA SumOfZeros ==
    ASSUME NEW S, IsFiniteSet(S), NEW f, \A x \in S : f[x] = 0
    PROVE  SumFunctionOnSet(f, S) = 0
<1>1. PICK it : Adds(it, f, S) /\ SumFunctionOnSet(f, S) = it[S]
  BY SumAdds
<1> DEFINE Good == {s \in SUBSET S : it[s] = 0}
<1>3. {} \in Good
  BY <1>1 DEF Adds
<1>4. ASSUME NEW s \in SUBSET S, s # {}, s \ {Chosen(s)} \in Good PROVE s \in Good
  <2>1. it[s] = f[Chosen(s)] + it[s \ {Chosen(s)}] /\ Chosen(s) \in S
    BY <1>1, <1>4 DEF Adds, Chosen
  <2> QED BY <1>4, <2>1
<1> HIDE DEF Good
<1>5. S \in Good
  BY <1>3, <1>4, EverySubset
<1> QED BY <1>1, <1>5 DEF Good

-----------------------------------------------------------------------------
(* The counters and their listeners *)

MetricsTypeOK ==
    /\ total \in [Counters -> Nat]
    /\ dated \in [Counters -> [Days -> Nat]]
    /\ pending \in [Listeners -> Nat]

LEMMA FiniteDays == IsFiniteSet(Days)
<1>1. LastDay \in Int
  BY MetricsAssumption
<1> QED BY <1>1, FS_Interval DEF Days

Waiting(c, step) == {l \in Listeners : l[2] = c /\ l[4] = step}

\* What the chart of all days shows of c.
Charted(c) == OfDays(c, DatedMetrics(LastDay, 1))

LEMMA FiniteListeners ==
    ASSUME NEW c, NEW step
    PROVE  IsFiniteSet(Waiting(c, step))
<1> DEFINE S == Emitters \X Days
           f == [x \in S |-> <<x[1], c, x[2], step>>]
           T == {f[x] : x \in S}
<1>1. IsFiniteSet(Days) /\ IsFiniteSet(Emitters)
  BY MetricsAssumption, FiniteDays
<1>2. IsFiniteSet(S)
  BY <1>1, FS_Product
<1>3. f \in Surjection(S, T)
  BY DEF Surjection
<1>4. IsFiniteSet(T)
  <2> HIDE DEF S, f, T
  <2> QED BY <1>2, <1>3, FS_Surjection
<1>5. Waiting(c, step) \subseteq T
  <2> SUFFICES ASSUME NEW l \in Waiting(c, step) PROVE l \in T
    OBVIOUS
  <2>1. PICK e \in Emitters, i \in Counters, d \in Days, x \in Steps : l = <<e, i, d, x>>
    BY DEF Waiting, Listeners
  <2>2. l = <<e, c, d, step>>
    BY <2>1 DEF Waiting
  <2>3. <<e, d>> \in S
    BY <2>1
  <2>4. f[<<e, d>>] = l
    BY <2>2, <2>3
  <2> HIDE DEF S, f
  <2> QED BY <2>3, <2>4
<1> QED BY <1>4, <1>5, FS_Subset

\* The dates of the chart are the days, in whichever order its ends come.
LEMMA ChartOfDays ==
    ASSUME MetricsTypeOK, NEW c \in Counters
    PROVE  Charted(c) = SumFunctionOnSet(dated[c], Days)
<1>1. LastDay \in Nat /\ 1 <= LastDay
  BY MetricsAssumption
<1>2. Min({LastDay, 1}) = 1 /\ Max({LastDay, 1}) = LastDay
  BY <1>1 DEF Min, Max
<1>3. DatesOf(LastDay, 1) = Days
  BY <1>1, <1>2 DEF DatesOf, Days
<1> DEFINE g == [d \in Days |-> DatedMetrics(LastDay, 1)[d][c]]
<1>4. Charted(c) = SumFunctionOnSet(g, Days)
  BY <1>3 DEF Charted, OfDays, DatedMetrics, SumFunction
<1>5. \A d \in Days : dated[c][d] \in Int /\ g[d] = dated[c][d]
  BY <1>3 DEF DatedMetrics, MetricsTypeOK
<1> HIDE DEF g
<1> QED BY <1>4, <1>5, FiniteDays, SumSame

LEMMA CountTypes ==
    ASSUME MetricsTypeOK, NEW c \in Counters
    PROVE  /\ total[c] \in Int /\ Under(c, "total") \in Int /\ Under(c, "dated") \in Int
           /\ Charted(c) \in Int
<1>1. \A step : Under(c, step) \in Int
  <2> TAKE step
  <2>1. \A l \in Waiting(c, step) : pending[l] \in Int
    BY DEF MetricsTypeOK, Waiting
  <2> QED BY <2>1, FiniteListeners, SumType DEF Under, Waiting
<1>2. \A d \in Days : dated[c][d] \in Int
  BY DEF MetricsTypeOK
<1>3. Charted(c) \in Int
  BY <1>2, FiniteDays, ChartOfDays, SumType
<1> QED BY <1>1, <1>3 DEF MetricsTypeOK

LEMMA CountsAreNumbers ==
    MetricsTypeOK => \A c \in Counters :
        /\ total[c] \in Int /\ Under(c, "total") \in Int /\ Under(c, "dated") \in Int
        /\ Charted(c) \in Int
BY CountTypes

LEMMA NextCountTypes ==
    (MetricsTypeOK => \A c \in Counters :
        /\ total[c] \in Int /\ Under(c, "total") \in Int /\ Under(c, "dated") \in Int
        /\ Charted(c) \in Int)'
BY CountsAreNumbers, PTL

\* One listener comes or goes, ...
LEMMA UnderMoves ==
    ASSUME MetricsTypeOK, NEW c, NEW step, NEW l \in Waiting(c, step), NEW x \in Int,
           \A m \in Waiting(c, step) : pending'[m] = IF m = l THEN pending[m] + x ELSE pending[m]
    PROVE  Under(c, step)' = Under(c, step) + x
<1> DEFINE f == pending
           g == pending'
           W == Waiting(c, step)
<1>1. IsFiniteSet(W) /\ l \in W
  BY FiniteListeners
<1>2. \A m \in W : f[m] \in Int /\ g[m] = IF m = l THEN f[m] + x ELSE f[m]
  BY DEF MetricsTypeOK, Waiting
<1>3. Under(c, step) = SumFunctionOnSet(f, W) /\ Under(c, step)' = SumFunctionOnSet(g, W)
  BY DEF Under, Waiting
<1> HIDE DEF f, g, W
<1>4. SumFunctionOnSet(g, W) = SumFunctionOnSet(f, W) + x
  BY <1>1, <1>2, SumMoves
<1> QED BY <1>3, <1>4

\* ... or none.
LEMMA UnderSame ==
    ASSUME MetricsTypeOK, NEW c, NEW step, \A m \in Waiting(c, step) : pending'[m] = pending[m]
    PROVE  Under(c, step)' = Under(c, step)
<1> DEFINE f == pending
           g == pending'
           W == Waiting(c, step)
<1>1. IsFiniteSet(W)
  BY FiniteListeners
<1>2. \A m \in W : f[m] \in Int /\ g[m] = f[m]
  BY DEF MetricsTypeOK, Waiting
<1>3. Under(c, step) = SumFunctionOnSet(f, W) /\ Under(c, step)' = SumFunctionOnSet(g, W)
  BY DEF Under, Waiting
<1> HIDE DEF f, g, W
<1>4. SumFunctionOnSet(g, W) = SumFunctionOnSet(f, W)
  BY <1>1, <1>2, SumSame
<1> QED BY <1>3, <1>4

LEMMA ChartsOfDays == MetricsTypeOK => \A c \in Counters : Charted(c) = SumFunctionOnSet(dated[c], Days)
BY ChartOfDays

LEMMA NextChartsOfDays ==
    (MetricsTypeOK => \A c \in Counters : Charted(c) = SumFunctionOnSet(dated[c], Days))'
BY ChartsOfDays, PTL

LEMMA ChartMoves ==
    ASSUME MetricsTypeOK, MetricsTypeOK', NEW c \in Counters, NEW d \in Days,
           dated' = [dated EXCEPT ![c][d] = @ + 1]
    PROVE  /\ Charted(c)' = Charted(c) + 1
           /\ \A i \in Counters \ {c} : Charted(i)' = Charted(i)
<1>1. \A i \in Counters : \A y \in Days : dated[i][y] \in Int
  BY DEF MetricsTypeOK
<1>2. \A i \in Counters : Charted(i)' = SumFunctionOnSet(dated'[i], Days)
  BY NextChartsOfDays
<1>3. \A y \in Days : dated'[c][y] = IF y = d THEN dated[c][y] + 1 ELSE dated[c][y]
  BY DEF MetricsTypeOK
<1>4. SumFunctionOnSet(dated'[c], Days) = SumFunctionOnSet(dated[c], Days) + 1
  <2> DEFINE f == dated[c]
             g == dated'[c]
  <2>1. \A y \in Days : f[y] \in Int /\ g[y] = IF y = d THEN f[y] + 1 ELSE f[y]
    BY <1>1, <1>3
  <2>2. 1 \in Int
    OBVIOUS
  <2> HIDE DEF f, g
  <2>3. SumFunctionOnSet(g, Days) = SumFunctionOnSet(f, Days) + 1
    BY <2>1, <2>2, FiniteDays, SumMoves
  <2> QED BY <2>3 DEF f, g
<1>5. \A i \in Counters \ {c} : dated'[i] = dated[i]
  BY DEF MetricsTypeOK
<1> QED BY <1>2, <1>4, <1>5, ChartsOfDays

LEMMA ChartSame ==
    ASSUME UNCHANGED dated, NEW c
    PROVE  Charted(c)' = Charted(c)
BY DEF Charted, OfDays, DatedMetrics

\* What is counted for c stays what it is: in the counters or under way.
Conserves(c) ==
    /\ total'[c] + Under(c, "total")' = total[c] + Under(c, "total")
    /\ Charted(c)' + Under(c, "dated")' - total'[c] = Charted(c) + Under(c, "dated") - total[c]

\* Or some of it is lost on its way.
Drops(c) ==
    /\ total'[c] + Under(c, "total")' <= total[c] + Under(c, "total")
    /\ Charted(c)' + Under(c, "dated")' - total'[c] <= Charted(c) + Under(c, "dated") - total[c]

LEMMA MetricsUntouched ==
    ASSUME MetricsTypeOK, UNCHANGED metricsVars
    PROVE  MetricsTypeOK' /\ \A c \in Counters : Conserves(c)
<1>1. MetricsTypeOK'
  BY DEF metricsVars, MetricsTypeOK
<1>2. ASSUME NEW c \in Counters PROVE Conserves(c)
  <2>1. total'[c] = total[c] /\ Charted(c)' = Charted(c)
    BY ChartSame DEF metricsVars
  <2>2. \A step : Under(c, step)' = Under(c, step)
    BY UnderSame DEF metricsVars
  <2> QED BY <2>1, <2>2 DEF Conserves
<1> QED BY <1>1, <1>2

\* An event begins one listener for each counter it is about.
LEMMA EmitBegins ==
    ASSUME MetricsTypeOK, NEW e \in Emitters, NEW cs \in SUBSET Counters, NEW d \in Days, Emit(e, cs, d)
    PROVE  /\ MetricsTypeOK'
           /\ \A c \in Counters : /\ total'[c] = total[c]
                                  /\ Charted(c)' = Charted(c) /\ Under(c, "dated")' = Under(c, "dated")
                                  /\ Under(c, "total")' = Under(c, "total") + IF c \in cs THEN 1 ELSE 0
<1>1. /\ UNCHANGED <<total, dated>>
      /\ \A l \in Listeners : pending'[l] = pending[l] + (IF l \in {e} \X cs \X {d} \X {"total"} THEN 1 ELSE 0)
  BY DEF Emit
<1>2. MetricsTypeOK'
  BY DEF MetricsTypeOK, Emit
<1>3. ASSUME NEW c \in Counters
      PROVE  /\ Charted(c)' = Charted(c) /\ Under(c, "dated")' = Under(c, "dated")
             /\ Under(c, "total")' = Under(c, "total") + IF c \in cs THEN 1 ELSE 0
  <2>1. Charted(c)' = Charted(c)
    BY <1>1, ChartSame
  <2>2. \A l \in Waiting(c, "dated") : pending'[l] = pending[l]
    BY <1>1 DEF Waiting, MetricsTypeOK
  <2>3. Under(c, "dated")' = Under(c, "dated")
    BY <2>2, UnderSame
  <2> DEFINE k == <<e, c, d, "total">>
  <2>4. k \in Waiting(c, "total")
    BY DEF Waiting, Listeners, Steps
  <2>5. \A l \in Waiting(c, "total") : l \in {e} \X cs \X {d} \X {"total"} <=> c \in cs /\ l = k
    BY DEF Waiting, Listeners
  <2>6. \A l \in Waiting(c, "total") :
            pending'[l] = IF l = k THEN pending[l] + (IF c \in cs THEN 1 ELSE 0) ELSE pending[l]
    BY <1>1, <2>5 DEF Waiting, MetricsTypeOK
  <2>7. (IF c \in cs THEN 1 ELSE 0) \in Int
    OBVIOUS
  <2> HIDE DEF k
  <2>8. Under(c, "total")' = Under(c, "total") + IF c \in cs THEN 1 ELSE 0
    BY <2>4, <2>6, <2>7, UnderMoves
  <2> QED BY <2>1, <2>3, <2>8
<1> QED BY <1>1, <1>2, <1>3

\* The two INCRs of a listener: what it counts moves on, and is never lost.
LEMMA TotalConserves ==
    ASSUME MetricsTypeOK, NEW e \in Emitters, NEW c \in Counters, NEW d \in Days, IncrementTotal(e, c, d)
    PROVE  MetricsTypeOK' /\ \A i \in Counters : Conserves(i)
<1> DEFINE l == <<e, c, d, "total">>
           k == <<e, c, d, "dated">>
<1>1. l \in Listeners /\ k \in Listeners /\ l # k /\ l[2] = c /\ l[4] = "total" /\ k[2] = c /\ k[4] = "dated"
  BY DEF Listeners, Steps
<1>2. /\ total' = [total EXCEPT ![c] = @ + 1] /\ UNCHANGED dated
      /\ pending[l] > 0 /\ pending' = [pending EXCEPT ![l] = @ - 1, ![k] = @ + 1]
  BY DEF IncrementTotal
<1> HIDE DEF l, k
<1>3. \A m \in Listeners : pending'[m] = IF m = l THEN pending[m] + (-1) ELSE IF m = k THEN pending[m] + 1 ELSE pending[m]
  BY <1>1, <1>2 DEF MetricsTypeOK
<1>4. MetricsTypeOK'
  <2>1. \A m \in Listeners : pending'[m] \in Nat
    BY <1>1, <1>2, <1>3 DEF MetricsTypeOK
  <2>2. pending' \in [Listeners -> Nat]
    BY <1>2, <2>1 DEF MetricsTypeOK
  <2> QED BY <1>2, <2>2 DEF MetricsTypeOK
<1>5. ASSUME NEW i \in Counters PROVE Conserves(i)
  <2>1. Charted(i)' = Charted(i)
    BY <1>2, ChartSame
  <2>2. CASE i = c
    <3>1. l \in Waiting(i, "total") /\ k \in Waiting(i, "dated")
      BY <1>1, <2>2 DEF Waiting
    <3>2. \A m \in Waiting(i, "total") : pending'[m] = IF m = l THEN pending[m] + (-1) ELSE pending[m]
      BY <1>1, <1>3 DEF Waiting
    <3>3. \A m \in Waiting(i, "dated") : pending'[m] = IF m = k THEN pending[m] + 1 ELSE pending[m]
      BY <1>1, <1>3 DEF Waiting
    <3>4. Under(i, "total")' = Under(i, "total") + (-1)
      BY <3>1, <3>2, UnderMoves
    <3>5. Under(i, "dated")' = Under(i, "dated") + 1
      BY <3>1, <3>3, UnderMoves
    <3>6. total'[i] = total[i] + 1
      BY <1>2, <2>2 DEF MetricsTypeOK
    <3> QED BY <2>1, <3>4, <3>5, <3>6, CountTypes DEF Conserves
  <2>3. CASE i # c
    <3>1. \A step : \A m \in Waiting(i, step) : pending'[m] = pending[m]
      BY <1>1, <1>3, <2>3 DEF Waiting
    <3>2. \A step : Under(i, step)' = Under(i, step)
      BY <3>1, UnderSame
    <3>3. total'[i] = total[i]
      BY <1>2, <2>3 DEF MetricsTypeOK
    <3> QED BY <2>1, <3>2, <3>3 DEF Conserves
  <2> QED BY <2>2, <2>3
<1> QED BY <1>4, <1>5

\* One listener is done with its step: of its counter and no other it is one less.
LEMMA OneLess ==
    ASSUME MetricsTypeOK, NEW l \in Listeners, pending[l] > 0,
           pending' = [pending EXCEPT ![l] = @ - 1]
    PROVE  /\ pending' \in [Listeners -> Nat]
           /\ \A i \in Counters, x \in Steps :
                Under(i, x)' = IF i = l[2] /\ x = l[4] THEN Under(i, x) - 1 ELSE Under(i, x)
<1>3. \A m \in Listeners : pending'[m] = IF m = l THEN pending[m] + (-1) ELSE pending[m]
  BY DEF MetricsTypeOK
<1>4. pending' \in [Listeners -> Nat]
  <2>1. \A m \in Listeners : pending'[m] \in Nat
    BY <1>3 DEF MetricsTypeOK
  <2>2. pending' = [m \in Listeners |-> pending'[m]]
    BY DEF MetricsTypeOK
  <2> HIDE DEF MetricsTypeOK
  <2> QED BY <2>1, <2>2
<1>5. ASSUME NEW i \in Counters, NEW x \in Steps
      PROVE  Under(i, x)' = IF i = l[2] /\ x = l[4] THEN Under(i, x) - 1 ELSE Under(i, x)
  <2>1. CASE i = l[2] /\ x = l[4]
    <3>1. l \in Waiting(i, x)
      BY <2>1 DEF Waiting
    <3>2. \A m \in Waiting(i, x) : pending'[m] = IF m = l THEN pending[m] + (-1) ELSE pending[m]
      BY <1>3 DEF Waiting
    <3>3. Under(i, x)' = Under(i, x) + (-1)
      BY <3>1, <3>2, UnderMoves
    <3>4. Under(i, x) \in Int
      BY CountTypes DEF Steps
    <3> QED BY <2>1, <3>3, <3>4
  <2>2. CASE ~(i = l[2] /\ x = l[4])
    <3>1. \A m \in Waiting(i, x) : pending'[m] = pending[m]
      BY <1>3, <2>2 DEF Waiting
    <3> QED BY <2>2, <3>1, UnderSame
  <2> QED BY <2>1, <2>2
<1> QED BY <1>4, <1>5

LEMMA DatedConserves ==
    ASSUME MetricsTypeOK, NEW e \in Emitters, NEW c \in Counters, NEW d \in Days, IncrementDated(e, c, d)
    PROVE  MetricsTypeOK' /\ \A i \in Counters : Conserves(i)
<1>1. /\ dated' = [dated EXCEPT ![c][d] = @ + 1] /\ UNCHANGED total
      /\ pending[<<e, c, d, "dated">>] > 0
      /\ pending' = [pending EXCEPT ![<<e, c, d, "dated">>] = @ - 1]
  BY DEF IncrementDated
<1>2. "dated" \in Steps /\ "total" \in Steps
  BY DEF Steps
<1>3. /\ pending' \in [Listeners -> Nat]
      /\ \A i \in Counters, x \in Steps :
            Under(i, x)' = IF i = c /\ x = "dated" THEN Under(i, x) - 1 ELSE Under(i, x)
  <2> DEFINE l == <<e, c, d, "dated">>
  <2>1. l \in Listeners /\ l[2] = c /\ l[4] = "dated"
    BY <1>2 DEF Listeners
  <2>2. pending[l] > 0 /\ pending' = [pending EXCEPT ![l] = @ - 1]
    BY <1>1
  <2> HIDE DEF l
  <2> QED BY <2>1, <2>2, OneLess
<1>4. MetricsTypeOK'
  BY <1>1, <1>3 DEF MetricsTypeOK
<1>5. Charted(c)' = Charted(c) + 1 /\ \A i \in Counters \ {c} : Charted(i)' = Charted(i)
  BY <1>1, <1>4, ChartMoves
<1> QED BY <1>1, <1>2, <1>3, <1>4, <1>5, CountTypes DEF Conserves

\* A listener that fails leaves its counter as it is, or had it moved already.
LEMMA FaultDrops ==
    ASSUME MetricsTypeOK, NEW e \in Emitters, ListenerFault(e)
    PROVE  MetricsTypeOK' /\ \A i \in Counters : Drops(i)
<1>1. PICK c \in Counters, d \in Days, step \in Steps :
        /\ pending[<<e, c, d, step>>] > 0
        /\ pending' = [pending EXCEPT ![<<e, c, d, step>>] = @ - 1]
        /\ \/ UNCHANGED <<total, dated>>
           \/ step = "total" /\ total' = [total EXCEPT ![c] = @ + 1] /\ UNCHANGED dated
           \/ step = "dated" /\ dated' = [dated EXCEPT ![c][d] = @ + 1] /\ UNCHANGED total
  BY DEF ListenerFault
<1>2. /\ pending' \in [Listeners -> Nat]
      /\ \A i \in Counters, x \in Steps :
            Under(i, x)' = IF i = c /\ x = step THEN Under(i, x) - 1 ELSE Under(i, x)
  <2> DEFINE l == <<e, c, d, step>>
  <2>1. l \in Listeners /\ l[2] = c /\ l[4] = step
    BY DEF Listeners
  <2>2. pending[l] > 0 /\ pending' = [pending EXCEPT ![l] = @ - 1]
    BY <1>1
  <2> HIDE DEF l
  <2> QED BY <2>1, <2>2, OneLess
<1>3. MetricsTypeOK'
  <2>1. UNCHANGED total \/ total' = [total EXCEPT ![c] = @ + 1]
    BY <1>1
  <2>2. UNCHANGED dated \/ dated' = [dated EXCEPT ![c][d] = @ + 1]
    BY <1>1
  <2>3. total' \in [Counters -> Nat]
    BY <2>1 DEF MetricsTypeOK
  <2>4. dated' \in [Counters -> [Days -> Nat]]
    BY <2>2 DEF MetricsTypeOK
  <2> QED BY <1>2, <2>3, <2>4 DEF MetricsTypeOK
<1>4. "dated" \in Steps /\ "total" \in Steps /\ step \in {"total", "dated"}
  BY DEF Steps
<1>5. CASE UNCHANGED <<total, dated>>
  <2>1. \A i \in Counters : Charted(i)' = Charted(i) /\ total'[i] = total[i]
    BY <1>5, ChartSame
  <2> QED BY <1>2, <1>3, <1>4, <2>1, CountTypes DEF Drops
<1>6. CASE step = "total" /\ total' = [total EXCEPT ![c] = @ + 1] /\ UNCHANGED dated
  <2>1. \A i \in Counters : Charted(i)' = Charted(i) /\ total'[i] = IF i = c THEN total[i] + 1 ELSE total[i]
    BY <1>6, ChartSame DEF MetricsTypeOK
  <2> QED BY <1>2, <1>3, <1>4, <1>6, <2>1, CountTypes DEF Drops
<1>7. CASE step = "dated" /\ dated' = [dated EXCEPT ![c][d] = @ + 1] /\ UNCHANGED total
  <2>1. Charted(c)' = Charted(c) + 1 /\ \A i \in Counters \ {c} : Charted(i)' = Charted(i)
    BY <1>3, <1>7, ChartMoves
  <2> QED BY <1>2, <1>3, <1>4, <1>7, <2>1, CountTypes DEF Drops
<1> QED BY <1>1, <1>3, <1>5, <1>6, <1>7

\* A process that is gone takes its listeners along.
LEMMA GoneDrops ==
    ASSUME MetricsTypeOK, NEW e, DropListeners(e)
    PROVE  MetricsTypeOK' /\ \A i \in Counters : Drops(i)
<1>1. /\ UNCHANGED <<total, dated>>
      /\ pending' = [l \in Listeners |-> IF l[1] = e THEN 0 ELSE pending[l]]
  BY DEF DropListeners
<1>2. MetricsTypeOK'
  BY <1>1 DEF MetricsTypeOK
<1>3. ASSUME NEW i \in Counters, NEW step PROVE Under(i, step)' <= Under(i, step)
  <2> DEFINE f == pending
             g == pending'
             W == Waiting(i, step)
  <2>1. IsFiniteSet(W)
    BY FiniteListeners
  <2>2. \A m \in W : g[m] \in Int /\ f[m] \in Int /\ g[m] <= f[m]
    BY <1>1 DEF MetricsTypeOK, Waiting
  <2>3. Under(i, step) = SumFunctionOnSet(f, W) /\ Under(i, step)' = SumFunctionOnSet(g, W)
    BY DEF Under, Waiting
  <2> HIDE DEF f, g, W
  <2>4. SumFunctionOnSet(g, W) <= SumFunctionOnSet(f, W)
    BY <2>1, <2>2, SumUpTo
  <2> QED BY <2>3, <2>4
<1>4. \A i \in Counters : Charted(i)' = Charted(i) /\ total'[i] = total[i]
  BY <1>1, ChartSame
<1>5. ASSUME NEW i \in Counters PROVE Drops(i)
  <2>1. Under(i, "total")' <= Under(i, "total") /\ Under(i, "dated")' <= Under(i, "dated")
    BY <1>3
  <2>2. Under(i, "total") \in Int /\ Under(i, "dated") \in Int /\ Charted(i) \in Int /\ total[i] \in Int
    BY CountTypes
  <2>3. Under(i, "total")' \in Int /\ Under(i, "dated")' \in Int
    BY <1>2, NextCountTypes
  <2> QED BY <1>4, <2>1, <2>2, <2>3 DEF Drops
<1> QED BY <1>2, <1>5

-----------------------------------------------------------------------------
(* What happens, and how often it has *)

\* The runs of a handler that has begun and is not settled.
BegunRuns == {r \in Runs : run[r].job \in Handled /\
                    run[r].phase \in {"performing", "ok", "err"} \cup Settling}

LEMMA HappenedTypes ==
    ASSUME TypeOK
    PROVE  /\ \A c \in Counters : Happened(c) \in Int
           /\ IsFiniteSet(completed) /\ IsFiniteSet(zset["dead"])
           /\ IsFiniteSet(completed \cap Handled) /\ IsFiniteSet(BegunRuns)
           /\ IsFiniteSet(Jobs) /\ IsFiniteSet(Handled)
<1>1. IsFiniteSet(Jobs) /\ IsFiniteSet(Runs) /\ Handled \subseteq Jobs
  BY ObservedAssumption, ServerAssumption
<1>2. completed \subseteq Jobs /\ zset["dead"] \subseteq Jobs /\ BegunRuns \subseteq Runs
  BY DEF TypeOK, StoreTypeOK, SetNames, BegunRuns
<1>3. /\ IsFiniteSet(completed) /\ IsFiniteSet(zset["dead"]) /\ IsFiniteSet(completed \cap Handled)
      /\ IsFiniteSet(BegunRuns) /\ IsFiniteSet(Handled)
  BY <1>1, <1>2, FS_Subset
<1>4. /\ Cardinality(completed) \in Int /\ Cardinality(zset["dead"]) \in Int
      /\ Cardinality(completed \cap Handled) \in Int /\ Cardinality(BegunRuns) \in Int
  BY <1>3, FS_CardinalityType
<1>5. \A j \in Jobs : failures[j] \in Int
  BY DEF TypeOK
<1>6. SumFunctionOnSet(failures, Jobs) \in Int /\ SumFunctionOnSet(failures, Handled) \in Int
  BY <1>1, <1>3, <1>5, SumType
<1>7. \A c \in Counters : Happened(c) \in Int
  BY <1>4, <1>6 DEF Happened, Counters, BegunRuns
<1> QED BY <1>1, <1>3, <1>7

\* Nothing but the settling of a worker is counted as its outcome.
LEMMA OutcomeSteps ==
    ASSUME [Next]_vars
    PROVE  \/ UNCHANGED <<completed, failures, zset>>
           \/ \E s \in Servers : /\ loop[s].pc = "finish" /\ SettleEffect(loop[s].cur)
                                 /\ Finish(s) \/ SettleFault(s)
<1>1. CASE \E s \in Servers : IntakeStep(s) \/ IntakeFault(s)
  BY <1>1 DEF IntakeStep, IntakeAnswer, IntakeIter, IntakeEnd, IntakeFetch, IntakeTimeout, IntakeRead,
     IntakeMissing, IntakeFault, history, storeVars, Pop
<1>2. CASE \E r \in Runs : WorkerStep(r) \/ WorkerFault(r)
  BY <1>2 DEF WorkerStep, WorkerStart, WorkerEnd, WorkerFault, history, storeVars, UpdateJob
<1>3. CASE \E s \in Servers : \/ HandleCompletedJobs(s) \/ StartJobs(s) \/ StartFault(s)
                              \/ CleanupWorkers(s) \/ CleanupEnd(s) \/ ShutdownDone(s) \/ Shutdown(s)
                              \/ Exit(s) \/ Crash(s)
  BY <1>3 DEF HandleCompletedJobs, StartJobs, StartFault, CleanupWorkers, CleanupEnd, ShutdownDone,
     Shutdown, Exit, Crash, history, storeVars
<1>7. ASSUME NEW s \in Servers, CleanupRequeue(s) PROVE UNCHANGED <<completed, failures, zset>>
  BY <1>7 DEF CleanupRequeue, history, Requeue
<1>8. ASSUME NEW s \in Servers, CleanupFault(s) PROVE UNCHANGED <<completed, failures, zset>>
  <2>1. UNCHANGED history
    BY <1>8 DEF CleanupFault
  <2>2. CASE UNCHANGED storeVars
    BY <2>1, <2>2 DEF history, storeVars
  <2>3. CASE Requeue(run[loop[s].cur].job, run[loop[s].cur].retry)
    <3>1. UNCHANGED zset
      BY <2>3 DEF Requeue
    <3> QED BY <2>1, <3>1 DEF history
  <2> QED BY <1>8, <2>2, <2>3 DEF CleanupFault
<1>9. ASSUME NEW s \in Servers, NEW r \in Runs, Settle(s, r) \/ CleanupUpdate(s, r)
      PROVE  UNCHANGED <<completed, failures, zset>>
  BY <1>9 DEF Settle, CleanupUpdate, history, UpdateJob
<1>4. CASE \E s \in Servers : Finish(s) \/ SettleFault(s)
  BY <1>4 DEF Finish, SettleFault, storeVars
<1>5. CASE UNCHANGED vars
  BY <1>5 DEF vars, serverVars, storeVars
<1>6. CASE \E j \in Jobs : Submit(j)
  BY <1>6 DEF Submit, Enqueue
<1> QED BY <1>1, <1>2, <1>3, <1>4, <1>5, <1>6, <1>7, <1>8, <1>9 DEF Next, Faults, LoopStep

\* The job of a worker that is being settled is counted for the first time.
LEMMA SettledIsNew ==
    ASSUME Custody, NEW s \in Servers, loop[s].pc = "finish"
    PROVE  /\ loop[s].cur \in Runs /\ run[loop[s].cur].job \in Jobs
           /\ run[loop[s].cur].job \notin completed
           /\ run[loop[s].cur].job \notin zset["dead"]
<1> DEFINE j == run[loop[s].cur].job
<1>1. loop[s].cur \in Runs /\ j \in Jobs /\ loop[s].cur \in BearersOf(j)
  BY CurBears DEF Custody
<1> HIDE DEF j
<1>2. j \notin completed
  BY <1>1 DEF Custody, HeldIsPending, Unheld
<1>3. InSet(j) = {}
  BY <1>1 DEF Custody, Alone
<1>4. j \notin zset["dead"]
  BY <1>3 DEF InSet, SetNames
<1> USE DEF j
<1> QED BY <1>1, <1>2, <1>4

\* Settling a worker makes one of each thing its events tell of.
LEMMA EffectHappens ==
    ASSUME Custody, NEW s \in Servers, loop[s].pc = "finish", SettleEffect(loop[s].cur),
           NEW c \in Counters \ {"processed"}
    PROVE  /\ SettledEvents(loop[s].cur) \subseteq Counters \ {"processed"}
           /\ Happened(c)' = Happened(c) + IF c \in SettledEvents(loop[s].cur) THEN 1 ELSE 0
<1> DEFINE r == loop[s].cur
           j == run[r].job
<1>1. j \in Jobs /\ j \notin completed /\ j \notin zset["dead"]
  BY SettledIsNew
<1>2. /\ IsFiniteSet(completed) /\ IsFiniteSet(zset["dead"]) /\ IsFiniteSet(Jobs)
      /\ \A k \in Counters : Happened(k) \in Int
      /\ "dead" \in SetNames /\ DOMAIN zset = SetNames /\ "retry" \in SetNames
      /\ failures \in [Jobs -> Nat]
  BY HappenedTypes DEF Custody, Grounded, Held, TypeOK, StoreTypeOK, SetNames
<1>3. c \in {"completed", "errored", "died"}
  BY DEF Counters
<1>4. ASSUME failures' = [failures EXCEPT ![j] = @ + 1]
      PROVE  SumFunctionOnSet(failures', Jobs) = SumFunctionOnSet(failures, Jobs) + 1
  <2> DEFINE f == failures
             g == failures'
  <2>1. \A k \in Jobs : f[k] \in Int /\ g[k] = IF k = j THEN f[k] + 1 ELSE f[k]
    BY <1>2, <1>4
  <2>2. 1 \in Int
    OBVIOUS
  <2> HIDE DEF f, g, j
  <2>3. SumFunctionOnSet(g, Jobs) = SumFunctionOnSet(f, Jobs) + 1
    BY <1>1, <1>2, <2>1, <2>2, SumMoves
  <2> QED BY <2>3 DEF f, g
<1>5. CASE run[r].phase = "deleting"
  <2>1. completed' = completed \cup {j} /\ UNCHANGED <<failures, zset>>
    BY <1>5 DEF SettleEffect, UnsafeDeleteJob
  <2>2. Cardinality(completed') = Cardinality(completed) + 1
    BY <1>1, <1>2, <2>1, FS_AddElement
  <2>3. SettledEvents(r) = {"completed"}
    BY <1>5 DEF SettledEvents
  <2> QED BY <1>2, <1>3, <2>1, <2>2, <2>3 DEF Happened, Counters
<1>6. CASE run[r].phase = "dying"
  <2>1. /\ zset' = [zset EXCEPT !["dead"] = @ \cup {j}] /\ UNCHANGED completed
        /\ failures' = [failures EXCEPT ![j] = @ + 1]
    BY <1>6 DEF SettleEffect, AddToSet
  <2>2. zset'["dead"] = zset["dead"] \cup {j}
    BY <1>2, <2>1
  <2>3. Cardinality(zset'["dead"]) = Cardinality(zset["dead"]) + 1
    <3>1. Cardinality(zset["dead"] \cup {j}) = Cardinality(zset["dead"]) + 1
      BY <1>1, <1>2, FS_AddElement
    <3> QED BY <2>2, <3>1
  <2>4. SettledEvents(r) = {"died", "errored"}
    BY <1>6 DEF SettledEvents
  <2> QED BY <1>2, <1>3, <1>4, <2>1, <2>3, <2>4 DEF Happened, Counters
<1>7. CASE run[r].phase = "retrying"
  <2>1. /\ zset' = [zset EXCEPT !["retry"] = @ \cup {j}] /\ UNCHANGED completed
        /\ failures' = [failures EXCEPT ![j] = @ + 1]
    BY <1>7 DEF SettleEffect, AddToSet
  <2>2. zset'["dead"] = zset["dead"]
    BY <1>2, <2>1
  <2>3. SettledEvents(r) = {"errored"}
    BY <1>7 DEF SettledEvents
  <2> QED BY <1>2, <1>3, <1>4, <2>1, <2>2, <2>3 DEF Happened, Counters
<1> QED BY <1>5, <1>6, <1>7 DEF SettleEffect

LEMMA HandledTypes ==
    ASSUME TypeOK
    PROVE  /\ Cardinality(completed \cap Handled) \in Int /\ SumFunctionOnSet(failures, Handled) \in Int
           /\ Cardinality(BegunRuns) \in Int
<1>1. IsFiniteSet(completed \cap Handled) /\ IsFiniteSet(BegunRuns) /\ IsFiniteSet(Handled)
  BY HappenedTypes
<1>2. \A j \in Handled : failures[j] \in Int
  BY ServerAssumption DEF TypeOK
<1> QED BY <1>1, <1>2, SumType, FS_CardinalityType

LEMMA OutcomesSame ==
    ASSUME UNCHANGED <<completed, failures, zset>>
    PROVE  /\ \A c \in Counters \ {"processed"} : Happened(c)' = Happened(c)
           /\ BegunRuns' = BegunRuns => Happened("processed")' = Happened("processed")
BY DEF Happened, Counters, BegunRuns

LEMMA Attempts ==
    Happened("processed") = Cardinality(completed \cap Handled) + SumFunctionOnSet(failures, Handled)
                                + Cardinality(BegunRuns)
BY DEF Happened, BegunRuns

LEMMA NextAttempts ==
    (Happened("processed") = Cardinality(completed \cap Handled) + SumFunctionOnSet(failures, Handled)
                                + Cardinality(BegunRuns))'
BY Attempts, PTL

\* A handler that begins is one attempt more, ...
LEMMA StartHappens ==
    ASSUME Custody, NEW r \in Runs, WorkerStart(r)
    PROVE  /\ \A c \in Counters \ {"processed"} : Happened(c)' = Happened(c)
           /\ Happened("processed")' =
                Happened("processed") + IF run[r].job \in Handled THEN 1 ELSE 0
<1>1. UNCHANGED <<completed, failures, zset>> /\ run[r].phase = "starting"
  BY DEF WorkerStart, UpdateJob
<1>2. run \in [Runs -> RunType] /\ IsFiniteSet(BegunRuns) /\ \A k \in Counters : Happened(k) \in Int
  BY HappenedTypes DEF Custody, Grounded, Held, TypeOK
<1>3. r \notin BegunRuns
  BY <1>1 DEF BegunRuns, Settling
<1>4. CASE run[r].job \in Handled
  <2>1. run' = SetPhase({r}, "performing")
    BY <1>4 DEF WorkerStart
  <2>2. \A x \in Runs : run'[x].job = run[x].job /\ run'[x].phase = IF x = r THEN "performing" ELSE run[x].phase
    BY <1>2, <2>1 DEF SetPhase, RunType
  <2>3. BegunRuns' = BegunRuns \cup {r}
    BY <1>4, <2>2 DEF BegunRuns
  <2>4. Cardinality(BegunRuns') = Cardinality(BegunRuns) + 1
    <3>1. Cardinality(BegunRuns \cup {r}) = Cardinality(BegunRuns) + 1
      BY <1>2, <1>3, FS_AddElement
    <3> QED BY <2>3, <3>1
  <2>5. /\ Cardinality(completed \cap Handled) \in Int /\ SumFunctionOnSet(failures, Handled) \in Int
        /\ Cardinality(BegunRuns) \in Int
    BY <1>2, HandledTypes DEF Custody, Grounded, Held
  <2>6. Happened("processed")' = Happened("processed") + 1
    BY <1>1, <2>4, <2>5 DEF Happened, BegunRuns
  <2> QED BY <1>1, <1>4, <2>6, OutcomesSame
<1>5. CASE run[r].job \notin Handled
  <2>1. run' = SetPhase({r}, "err")
    BY <1>5 DEF WorkerStart
  <2>2. \A x \in Runs : run'[x].job = run[x].job /\ run'[x].phase = IF x = r THEN "err" ELSE run[x].phase
    BY <1>2, <2>1 DEF SetPhase, RunType
  <2>3. BegunRuns' = BegunRuns
    BY <1>5, <2>2 DEF BegunRuns
  <2> QED BY <1>1, <1>2, <1>5, <2>3, OutcomesSame DEF Counters
<1> QED BY <1>4, <1>5

\* ... and stays one when it is settled.
LEMMA FinishHappens ==
    ASSUME Custody, NEW s \in Servers, Finish(s)
    PROVE  Happened("processed")' = Happened("processed")
<1> DEFINE r == loop[s].cur
           j == run[r].job
<1>1. loop[s].pc = "finish" /\ SettleEffect(r) /\ run' = Forget({r})
  BY DEF Finish
<1>2. r \in Runs /\ j \in Jobs /\ j \notin completed
  BY <1>1, SettledIsNew
<1>3. /\ run \in [Runs -> RunType] /\ failures \in [Jobs -> Nat] /\ Handled \subseteq Jobs /\ NoJob \notin Jobs
      /\ IsFiniteSet(BegunRuns) /\ IsFiniteSet(completed \cap Handled) /\ IsFiniteSet(Handled)
  BY HappenedTypes, ServerAssumption DEF Custody, Grounded, Held, TypeOK
<1>4. /\ Cardinality(completed \cap Handled) \in Int /\ SumFunctionOnSet(failures, Handled) \in Int
      /\ Cardinality(BegunRuns) \in Int
  BY HandledTypes DEF Custody, Grounded, Held
<1>5. run[r].phase \in {"deleting", "dying", "retrying"}
  BY <1>1 DEF SettleEffect
<1>6. BegunRuns' = BegunRuns \ {r} /\ (r \in BegunRuns <=> j \in Handled)
  <2>1. \A x \in Runs : run'[x] = IF x = r THEN FreeRun ELSE run[x]
    BY <1>1 DEF Forget
  <2>2. FreeRun.job \notin Handled
    BY <1>3 DEF FreeRun
  <2>3. r \in BegunRuns <=> j \in Handled
    BY <1>2, <1>5 DEF BegunRuns, Settling
  <2> HIDE DEF r, j
  <2>4. BegunRuns' = BegunRuns \ {r}
    BY <2>1, <2>2 DEF BegunRuns
  <2> QED BY <2>3, <2>4
<1>7. Cardinality(BegunRuns') = Cardinality(BegunRuns) - IF j \in Handled THEN 1 ELSE 0
  <2>1. Cardinality(BegunRuns \ {r}) = IF r \in BegunRuns THEN Cardinality(BegunRuns) - 1 ELSE Cardinality(BegunRuns)
    BY <1>3, FS_RemoveElement
  <2> QED BY <1>4, <1>6, <2>1
<1>8. \/ completed' = completed \cup {j} /\ failures' = failures
      \/ completed' = completed /\ failures' = [failures EXCEPT ![j] = @ + 1]
  BY <1>1 DEF SettleEffect
<1> HIDE DEF r, j
<1>9. CASE completed' = completed \cup {j} /\ failures' = failures
  <2>1. Cardinality(completed' \cap Handled) =
            Cardinality(completed \cap Handled) + IF j \in Handled THEN 1 ELSE 0
    <3>1. CASE j \in Handled
      <4>1. completed' \cap Handled = (completed \cap Handled) \cup {j}
        BY <1>9, <3>1
      <4>2. Cardinality((completed \cap Handled) \cup {j}) = Cardinality(completed \cap Handled) + 1
        BY <1>2, <1>3, FS_AddElement
      <4> QED BY <3>1, <4>1, <4>2
    <3>2. CASE j \notin Handled
      <4>1. completed' \cap Handled = completed \cap Handled
        BY <1>9, <3>2
      <4>2. Cardinality(completed' \cap Handled) = Cardinality(completed \cap Handled)
        BY <4>1, Zenon
      <4> QED BY <1>4, <3>2, <4>2
    <3> QED BY <3>1, <3>2
  <2>2. SumFunctionOnSet(failures', Handled) = SumFunctionOnSet(failures, Handled)
    BY <1>9
  <2>3. Happened("processed")' = Cardinality(completed' \cap Handled)
                + SumFunctionOnSet(failures', Handled) + Cardinality(BegunRuns')
    BY NextAttempts
  <2> QED BY <1>4, <1>7, <2>1, <2>2, <2>3, Attempts
<1>10. CASE completed' = completed /\ failures' = [failures EXCEPT ![j] = @ + 1]
  <2> DEFINE f == failures
             g == failures'
  <2>1. \A k \in Handled : f[k] \in Int /\ g[k] = IF k = j THEN f[k] + 1 ELSE f[k]
    BY <1>3, <1>10
  <2>2. 1 \in Int
    OBVIOUS
  <2> HIDE DEF f, g
  <2>3. j \in Handled => SumFunctionOnSet(g, Handled) = SumFunctionOnSet(f, Handled) + 1
    BY <1>3, <2>1, <2>2, SumMoves
  <2>4. j \notin Handled => SumFunctionOnSet(g, Handled) = SumFunctionOnSet(f, Handled)
    <3> SUFFICES ASSUME j \notin Handled PROVE SumFunctionOnSet(g, Handled) = SumFunctionOnSet(f, Handled)
      OBVIOUS
    <3>1. \A k \in Handled : f[k] \in Int /\ g[k] = f[k]
      BY <2>1
    <3> QED BY <1>3, <3>1, SumSame
  <2>5. SumFunctionOnSet(failures', Handled) =
            SumFunctionOnSet(failures, Handled) + IF j \in Handled THEN 1 ELSE 0
    BY <1>4, <2>3, <2>4 DEF f, g
  <2> QED BY <1>4, <1>7, <1>10, <2>5, Attempts, NextAttempts
<1> QED BY <1>8, <1>9, <1>10

\* Where every run stays begun, or stays none that is, the attempts are the same.
Begins == {"performing", "ok", "err"} \cup Settling

LEMMA BegunKept ==
    ASSUME \A x \in Runs : \/ run'[x] = run[x]
                           \/ run'[x].phase \notin Begins /\ run[x].phase \notin Begins
                           \/ /\ run'[x].phase \in Begins /\ run[x].phase \in Begins
                              /\ run'[x].job = run[x].job
    PROVE  BegunRuns' = BegunRuns
<1>1. /\ BegunRuns = {x \in Runs : run[x].job \in Handled /\ run[x].phase \in Begins}
      /\ BegunRuns' = {x \in Runs : run'[x].job \in Handled /\ run'[x].phase \in Begins}
  BY DEF BegunRuns, Begins
<1> QED BY <1>1

LEMMA PhaseKept ==
    ASSUME run \in [Runs -> RunType], NEW rs, NEW phase, run' = SetPhase(rs, phase),
           \A r \in Runs : r \in rs => (phase \in Begins <=> run[r].phase \in Begins)
    PROVE  BegunRuns' = BegunRuns
<1>1. \A x \in Runs : run'[x] = IF x \in rs THEN [run[x] EXCEPT !.phase = phase] ELSE run[x]
  BY DEF SetPhase
<1>2. \A x \in Runs : [run[x] EXCEPT !.phase = phase].phase = phase
                      /\ [run[x] EXCEPT !.phase = phase].job = run[x].job
  BY DEF RunType
<1> QED BY <1>1, <1>2, BegunKept

\* What else the servers do while nothing stops or fails.
QuietStep ==
    \/ \E j \in Jobs : Submit(j)
    \/ \E s \in Servers :
            \/ IntakeStep(s) \/ HandleCompletedJobs(s) \/ StartJobs(s)
            \/ CleanupWorkers(s) \/ CleanupRequeue(s) \/ CleanupEnd(s) \/ ShutdownDone(s)
            \/ \E r \in Runs : Settle(s, r) \/ CleanupUpdate(s, r)
    \/ \E r \in Runs : WorkerEnd(r)
    \/ UNCHANGED vars

\* None of it begins or forgets an attempt.
LEMMA QuietBegins ==
    ASSUME Custody, QuietStep
    PROVE  BegunRuns' = BegunRuns
<1>3. run \in [Runs -> RunType]
  BY DEF Custody, Grounded, Held, TypeOK
<1>4. CASE UNCHANGED run
  BY <1>4, BegunKept
<1>5. ASSUME NEW s \in Servers, NEW r \in Runs, IntakeRead(s, r) PROVE BegunRuns' = BegunRuns
  <2>1. run[r].phase = "free" /\ run'[r].phase = "toStart" /\ \A x \in Runs \ {r} : run'[x] = run[x]
    BY <1>3, <1>5 DEF IntakeRead
  <2> QED BY <2>1, BegunKept DEF Begins, Settling
<1>6. ASSUME NEW r \in Runs, WorkerEnd(r) PROVE BegunRuns' = BegunRuns
  BY <1>3, <1>6, PhaseKept DEF WorkerEnd, Begins, Settling
<1>7. ASSUME NEW s \in Servers, StartJobs(s) PROVE BegunRuns' = BegunRuns
  BY <1>3, <1>7, PhaseKept DEF StartJobs, Begins, Settling, RunsOf
<1>8. ASSUME NEW s \in Servers, HandleCompletedJobs(s) PROVE BegunRuns' = BegunRuns
  <2>1. \A x \in Runs : run'[x] =
                CASE x \in RunsOf(s, {"ok"}) -> [run[x] EXCEPT !.phase = "acking"]
                  [] x \in RunsOf(s, {"err"}) -> [run[x] EXCEPT !.phase = "failing"]
                  [] OTHER -> run[x]
    BY <1>8 DEF HandleCompletedJobs
  <2>2. ASSUME NEW x \in Runs, run'[x] # run[x]
        PROVE  run'[x].phase \in Begins /\ run[x].phase \in Begins /\ run'[x].job = run[x].job
    <3>1. \/ run[x].phase = "ok" /\ run'[x] = [run[x] EXCEPT !.phase = "acking"]
          \/ run[x].phase = "err" /\ run'[x] = [run[x] EXCEPT !.phase = "failing"]
      BY <2>1, <2>2 DEF RunsOf
    <3> QED BY <1>3, <3>1 DEF Begins, Settling, RunType
  <2> QED BY <2>2, BegunKept
<1>9. ASSUME NEW s \in Servers, NEW r \in Runs, Settle(s, r) PROVE BegunRuns' = BegunRuns
  <2>1. \/ run[r].phase = "acking" /\ run' = SetPhase({r}, "deleting")
        \/ run[r].phase = "failing" /\ run' = SetPhase({r}, "dying")
        \/ /\ run[r].phase = "failing"
           /\ run' = [run EXCEPT ![r] = [run[r] EXCEPT !.phase = "retrying", !.retry = run[r].retry + 1]]
    BY <1>9 DEF Settle
  <2>2. CASE run[r].phase = "failing"
             /\ run' = [run EXCEPT ![r] = [run[r] EXCEPT !.phase = "retrying", !.retry = run[r].retry + 1]]
    <3>1. run'[r].phase = "retrying" /\ run'[r].job = run[r].job /\ \A x \in Runs \ {r} : run'[x] = run[x]
      BY <1>3, <2>2 DEF RunType
    <3> QED BY <2>2, <3>1, BegunKept DEF Begins, Settling
  <2> QED BY <1>3, <2>1, <2>2, PhaseKept DEF Begins, Settling
<1>10. ASSUME NEW s \in Servers, CleanupRequeue(s) PROVE BegunRuns' = BegunRuns
  <2> DEFINE r == loop[s].cur
  <2>1. run' = [run EXCEPT ![r] = [run[r] EXCEPT !.requeued = TRUE]]
    BY <1>10 DEF CleanupRequeue
  <2> HIDE DEF r
  <2>2. \A x \in Runs : run'[x].phase = run[x].phase /\ run'[x].job = run[x].job
    BY <1>3, <2>1 DEF RunType
  <2> QED BY <2>2, BegunKept
<1>11. ASSUME NEW s \in Servers,
              \/ CleanupWorkers(s) \/ CleanupEnd(s) \/ ShutdownDone(s) \/ \E r \in Runs : CleanupUpdate(s, r)
       PROVE  UNCHANGED run
  BY <1>11 DEF CleanupWorkers, CleanupEnd, ShutdownDone, CleanupUpdate
<1>12. ASSUME NEW s \in Servers,
              \/ IntakeIter(s) \/ IntakeEnd(s) \/ IntakeTimeout(s) \/ IntakeMissing(s)
              \/ \E q \in Queues : IntakeFetch(s, q)
       PROVE  UNCHANGED run
  BY <1>12 DEF IntakeIter, IntakeEnd, IntakeTimeout, IntakeMissing, IntakeFetch
<1>13. ASSUME (\E j \in Jobs : Submit(j)) \/ UNCHANGED vars PROVE UNCHANGED run
  BY <1>13 DEF Submit, vars, serverVars
<1> QED BY <1>4, <1>5, <1>6, <1>7, <1>8, <1>9, <1>10, <1>11, <1>12, <1>13
        DEF QuietStep, IntakeStep, IntakeAnswer

LEMMA QuietOutcomes ==
    ASSUME QuietStep
    PROVE  UNCHANGED <<completed, failures, zset, budget>>
<1>1. ASSUME NEW j \in Jobs, Submit(j) PROVE UNCHANGED <<completed, failures, zset, budget>>
  BY <1>1 DEF Submit, Enqueue
<1>2. ASSUME NEW s \in Servers, IntakeStep(s) PROVE UNCHANGED <<completed, failures, zset, budget>>
  BY <1>2 DEF IntakeStep, IntakeAnswer, IntakeIter, IntakeEnd, IntakeFetch, IntakeTimeout, IntakeRead,
     IntakeMissing, history, storeVars, Pop
<1>3. ASSUME NEW s \in Servers, \/ HandleCompletedJobs(s) \/ StartJobs(s) \/ CleanupWorkers(s)
                                \/ CleanupEnd(s) \/ ShutdownDone(s)
      PROVE  UNCHANGED <<completed, failures, zset, budget>>
  BY <1>3 DEF HandleCompletedJobs, StartJobs, CleanupWorkers, CleanupEnd, ShutdownDone, history, storeVars
<1>4. ASSUME NEW s \in Servers, CleanupRequeue(s) PROVE UNCHANGED <<completed, failures, zset, budget>>
  BY <1>4 DEF CleanupRequeue, history, Requeue
<1>5. ASSUME NEW s \in Servers, NEW r \in Runs, Settle(s, r) \/ CleanupUpdate(s, r)
      PROVE  UNCHANGED <<completed, failures, zset, budget>>
  BY <1>5 DEF Settle, CleanupUpdate, history, UpdateJob
<1>6. ASSUME NEW r \in Runs, WorkerEnd(r) PROVE UNCHANGED <<completed, failures, zset, budget>>
  BY <1>6 DEF WorkerEnd, history, storeVars
<1>7. UNCHANGED vars => UNCHANGED <<completed, failures, zset, budget>>
  BY DEF vars, serverVars, storeVars
<1> QED BY <1>1, <1>2, <1>3, <1>4, <1>5, <1>6, <1>7 DEF QuietStep

-----------------------------------------------------------------------------
(* The counters are true to what has happened. *)

CountInv == Custody /\ Charged /\ MetricsTypeOK /\ CountersAccount /\ DatedWithinTotal

LEMMA ChartWithin ==
    DatedWithinTotal <=> \A c \in Counters :
        /\ Charted(c) + Under(c, "dated") <= total[c]
        /\ Undisturbed => Charted(c) + Under(c, "dated") = total[c]
BY DEF DatedWithinTotal, Charted

LEMMA NextChartWithin ==
    (DatedWithinTotal <=> \A c \in Counters :
        /\ Charted(c) + Under(c, "dated") <= total[c]
        /\ Undisturbed => Charted(c) + Under(c, "dated") = total[c])'
BY ChartWithin, PTL

LEMMA NextHappenedTypes == (TypeOK => \A c \in Counters : Happened(c) \in Int)'
<1>1. TypeOK => \A c \in Counters : Happened(c) \in Int
  BY HappenedTypes
<1> QED BY <1>1, PTL

\* A step after which no less has happened and no more is counted, and after
\* which the two are what they were unless something has stopped or failed.
LEMMA CountKept ==
    ASSUME TypeOK, TypeOK', MetricsTypeOK, MetricsTypeOK', CountersAccount, DatedWithinTotal,
           \A c \in Counters : Drops(c),
           \A c \in Counters \ {"processed"} : Happened(c)' >= Happened(c),
           Undisturbed' => /\ Undisturbed
                           /\ \A c \in Counters : Conserves(c) /\ Happened(c)' = Happened(c)
    PROVE  CountersAccount' /\ DatedWithinTotal'
<1>1. \A c \in Counters :
        /\ total[c] \in Int /\ Under(c, "total") \in Int /\ Under(c, "dated") \in Int
        /\ Charted(c) \in Int /\ Happened(c) \in Int
  BY CountsAreNumbers, HappenedTypes
<1>2. \A c \in Counters :
        /\ total'[c] \in Int /\ Under(c, "total")' \in Int /\ Under(c, "dated")' \in Int
        /\ Charted(c)' \in Int /\ Happened(c)' \in Int
  BY NextCountTypes, NextHappenedTypes
<1>3. ASSUME NEW c \in Counters
      PROVE  /\ c # "processed" => total'[c] + Under(c, "total")' <= Happened(c)'
             /\ Undisturbed' => total'[c] + Under(c, "total")' = Happened(c)'
  <2>1. c # "processed" => total[c] + Under(c, "total") <= Happened(c) /\ Happened(c)' >= Happened(c)
    BY DEF CountersAccount
  <2>2. Undisturbed' => total[c] + Under(c, "total") = Happened(c) /\ Conserves(c) /\ Happened(c)' = Happened(c)
    BY DEF CountersAccount
  <2>3. total'[c] + Under(c, "total")' <= total[c] + Under(c, "total")
    BY DEF Drops
  <2> QED BY <1>1, <1>2, <2>1, <2>2, <2>3 DEF Conserves
<1>4. ASSUME NEW c \in Counters
      PROVE  /\ Charted(c)' + Under(c, "dated")' <= total'[c]
             /\ Undisturbed' => Charted(c)' + Under(c, "dated")' = total'[c]
  <2>1. Charted(c) + Under(c, "dated") <= total[c]
    BY ChartWithin
  <2>2. Undisturbed' => Charted(c) + Under(c, "dated") = total[c] /\ Conserves(c)
    BY ChartWithin
  <2>3. Charted(c)' + Under(c, "dated")' - total'[c] <= Charted(c) + Under(c, "dated") - total[c]
    BY DEF Drops
  <2> QED BY <1>1, <1>2, <2>1, <2>2, <2>3 DEF Conserves
<1>5. CountersAccount'
  BY <1>3 DEF CountersAccount
<1>6. DatedWithinTotal'
  BY <1>4, NextChartWithin
<1> QED BY <1>5, <1>6

\* A step that happens as often as it is told of.
LEMMA CountMoved ==
    ASSUME TypeOK, TypeOK', MetricsTypeOK, MetricsTypeOK', CountersAccount, DatedWithinTotal,
           NEW cs \in SUBSET Counters, Undisturbed' => Undisturbed,
           \A c \in Counters : /\ total'[c] = total[c]
                               /\ Charted(c)' = Charted(c) /\ Under(c, "dated")' = Under(c, "dated")
                               /\ Under(c, "total")' = Under(c, "total") + IF c \in cs THEN 1 ELSE 0,
           \A c \in Counters : c # "processed" \/ Undisturbed' =>
                Happened(c)' = Happened(c) + IF c \in cs THEN 1 ELSE 0
    PROVE  CountersAccount' /\ DatedWithinTotal'
<1>1. \A c \in Counters :
        /\ total[c] \in Int /\ Under(c, "total") \in Int /\ Under(c, "dated") \in Int
        /\ Charted(c) \in Int /\ Happened(c) \in Int
  BY CountsAreNumbers, HappenedTypes
<1>2. ASSUME NEW c \in Counters
      PROVE  /\ c # "processed" => total'[c] + Under(c, "total")' <= Happened(c)'
             /\ Undisturbed' => total'[c] + Under(c, "total")' = Happened(c)'
  <2>1. c # "processed" => total[c] + Under(c, "total") <= Happened(c)
    BY DEF CountersAccount
  <2>2. Undisturbed' => total[c] + Under(c, "total") = Happened(c)
    BY DEF CountersAccount
  <2> QED BY <1>1, <2>1, <2>2
<1>3. ASSUME NEW c \in Counters
      PROVE  /\ Charted(c)' + Under(c, "dated")' <= total'[c]
             /\ Undisturbed' => Charted(c)' + Under(c, "dated")' = total'[c]
  BY ChartWithin
<1>4. CountersAccount'
  BY <1>2 DEF CountersAccount
<1>5. DatedWithinTotal'
  BY <1>3, NextChartWithin
<1> QED BY <1>4, <1>5

LEMMA ConservesDrops ==
    ASSUME MetricsTypeOK, MetricsTypeOK', \A c \in Counters : Conserves(c)
    PROVE  \A c \in Counters : Drops(c)
<1> SUFFICES ASSUME NEW c \in Counters PROVE Drops(c)
  OBVIOUS
<1>1. /\ total[c] \in Int /\ Under(c, "total") \in Int /\ Under(c, "dated") \in Int
      /\ Charted(c) \in Int
  BY CountsAreNumbers
<1> QED BY <1>1 DEF Conserves, Drops

\* What happens beside the listeners makes no number smaller.
LEMMA OutcomesGrow ==
    ASSUME Custody, [Next]_vars
    PROVE  \A c \in Counters \ {"processed"} : Happened(c)' >= Happened(c)
<1>1. \A c \in Counters : Happened(c) \in Int
  BY HappenedTypes DEF Custody, Grounded, Held
<1>2. CASE UNCHANGED <<completed, failures, zset>>
  BY <1>1, <1>2, OutcomesSame
<1>3. ASSUME NEW s \in Servers, loop[s].pc = "finish", SettleEffect(loop[s].cur)
      PROVE  \A c \in Counters \ {"processed"} : Happened(c)' >= Happened(c)
  <2>1. \A c \in Counters \ {"processed"} :
            Happened(c)' = Happened(c) + IF c \in SettledEvents(loop[s].cur) THEN 1 ELSE 0
    BY <1>3, EffectHappens
  <2> QED BY <1>1, <2>1
<1> QED BY <1>2, <1>3, OutcomeSteps

\* An event of a server: told, as long as its pool gives out clients.
LEMMA CountEvent ==
    ASSUME CountInv, TypeOK', NEW s \in Servers, NEW cs \in SUBSET Counters, EmitFrom(s, cs),
           UNCHANGED budget,
           \A c \in Counters : Happened(c)' = Happened(c) + IF c \in cs THEN 1 ELSE 0
    PROVE  MetricsTypeOK' /\ CountersAccount' /\ DatedWithinTotal'
<1>1. Undisturbed' <=> Undisturbed
  BY DEF Undisturbed
<1>2. TypeOK /\ MetricsTypeOK /\ CountersAccount /\ DatedWithinTotal
  BY DEF CountInv, Custody, Grounded, Held
<1>3. CASE cs # {} /\ proc[s] # "stopped"
  <2>1. PICK d \in Days : Emit(s, cs, d)
    BY <1>3 DEF EmitFrom
  <2>2. s \in Emitters
    BY ObservedAssumption
  <2>3. /\ MetricsTypeOK'
        /\ \A c \in Counters : /\ total'[c] = total[c]
                               /\ Charted(c)' = Charted(c) /\ Under(c, "dated")' = Under(c, "dated")
                               /\ Under(c, "total")' = Under(c, "total") + IF c \in cs THEN 1 ELSE 0
    BY <1>2, <2>1, <2>2, EmitBegins
  <2> QED BY <1>1, <1>2, <2>3, CountMoved
<1>4. CASE cs = {} \/ proc[s] = "stopped"
  <2>1. UNCHANGED metricsVars
    BY <1>4 DEF EmitFrom
  <2>2. MetricsTypeOK' /\ \A c \in Counters : Conserves(c)
    BY <1>2, <2>1, MetricsUntouched
  <2>3. \A c \in Counters : Happened(c) \in Int
    BY <1>2, HappenedTypes
  <2>4. \A c \in Counters : Happened(c)' >= Happened(c)
    BY <2>3
  <2>5. cs # {} => ~Undisturbed
    BY <1>4 DEF CountInv, Charted, Charged
  <2>6. cs = {} => \A c \in Counters : Happened(c)' = Happened(c)
    BY <2>3
  <2> QED BY <1>1, <1>2, <2>2, <2>4, <2>5, <2>6, ConservesDrops, CountKept
<1> QED BY <1>3, <1>4

\* The plugins' own calls are charged to the budget as those of the server are.
LEMMA PluginFaultKeeps ==
    ASSUME Custody, Charged, Spend("fault"), UNCHANGED <<storeVars, proc, intake, loop, run, history>>
    PROVE  Custody' /\ Charged' /\ ~Undisturbed'
<1>1. TypeOK
  BY DEF Custody, Grounded, Held
<1>2. Charged' /\ ~Undisturbed'
  BY <1>1, SpendingDisturbs DEF Budgets
<1>3. budget' \in [Budgets -> Nat]
  BY <1>1, SpendType DEF TypeOK, Budgets
<1>4. TypeOK'
  BY <1>1, <1>3 DEF TypeOK, StoreTypeOK, storeVars, history
<1>5. Grounded'
  BY <1>4 DEF Custody, Grounded, Held, RunsHeld, IntakeHeld, LoopOwns, RunsOf, QueuesSorted, FreeIsEmpty,
     HandedBack, storeVars
<1>6. \A j \in Jobs : (Alone(j)' <=> Alone(j)) /\ (Unheld(j)' <=> Unheld(j))
  BY DEF Alone, Unheld, InQueue, InSet, IntakesOf, BearersOf, storeVars
<1> QED BY <1>2, <1>5, <1>6 DEF Custody, HeldIsPending, PendingHasPayload, storeVars, history

\* The steps of servers and plugins, by what they do to the counters.
LEMMA ObservedSteps ==
    ASSUME [ObservedNext]_observedVars
    PROVE  \/ QuietStep /\ UNCHANGED metricsVars
           \/ Faults /\ UNCHANGED metricsVars
           \/ \E s \in Servers : Shutdown(s) /\ UNCHANGED metricsVars
           \/ \E r \in Runs : ObservedStart(r)
           \/ \E s \in Servers : ObservedFinish(s) \/ ObservedGone(s) \/ PluginFault(s) \/ Listening(s)
<1>1. CASE ObservedServer
  BY <1>1 DEF ObservedServer, QuietStep
<1>2. CASE \/ UNCHANGED observedVars \/ Panel
           \/ \E s \in Servers : HeartBeats(s) \/ CleanUpPlugins(s) \/ ObservedDone(s)
  BY <1>2 DEF observedVars, Panel, HeartBeats, CleanUpPlugins, ObservedDone, QuietStep
<1> QED BY <1>1, <1>2 DEF ObservedNext

\* The servers' part of a step is one of Next, except where a plugin's call fails.
LEMMA ObservedIsNext ==
    ASSUME \/ QuietStep \/ Faults
           \/ \E s \in Servers : Shutdown(s) \/ ObservedFinish(s) \/ ObservedGone(s) \/ Listening(s)
           \/ \E r \in Runs : ObservedStart(r)
    PROVE  [Next]_vars
<1>1. QuietStep => [Next]_vars
  BY DEF QuietStep, Next, LoopStep, WorkerStep
<1>2. Faults \/ (\E s \in Servers : Shutdown(s)) => [Next]_vars
  BY DEF Next
<1>3. (\E s \in Servers : ObservedFinish(s) \/ ObservedGone(s)) => [Next]_vars
  BY DEF Next, ObservedFinish, ObservedGone, LoopStep
<1>4. (\E s \in Servers : Listening(s)) => [Next]_vars
  BY DEF Listening
<1>5. (\E r \in Runs : ObservedStart(r)) => [Next]_vars
  BY DEF ObservedStart, Next, WorkerStep
<1> QED BY <1>1, <1>2, <1>3, <1>4, <1>5

LEMMA CountNext == CountInv /\ [ObservedNext]_observedVars => CountInv'
<1> SUFFICES ASSUME CountInv, [ObservedNext]_observedVars PROVE CountInv'
  OBVIOUS
<1>1. /\ Custody /\ Charged /\ TypeOK /\ MetricsTypeOK /\ CountersAccount /\ DatedWithinTotal
      /\ run \in [Runs -> RunType]
  BY DEF CountInv, Custody, Grounded, Held, TypeOK
<1>2. Custody' => TypeOK'
  BY DEF Custody, Grounded, Held
<1>3. UNCHANGED budget => (Undisturbed' <=> Undisturbed)
  BY DEF Undisturbed
<1>4. [Next]_vars => /\ Custody' /\ Charged' /\ TypeOK'
                     /\ \A c \in Counters \ {"processed"} : Happened(c)' >= Happened(c)
  BY <1>1, <1>2, CustodyNext, ChargedNext, OutcomesGrow
<1>5. CASE QuietStep /\ UNCHANGED metricsVars
  <2>1. [Next]_vars
    BY <1>5, ObservedIsNext
  <2>2. MetricsTypeOK' /\ \A c \in Counters : Conserves(c)
    BY <1>1, <1>5, MetricsUntouched
  <2>3. UNCHANGED <<completed, failures, zset, budget>> /\ BegunRuns' = BegunRuns
    BY <1>1, <1>5, QuietOutcomes, QuietBegins
  <2>4. /\ \A c \in Counters \ {"processed"} : Happened(c)' = Happened(c)
        /\ Happened("processed")' = Happened("processed")
    BY <2>3, OutcomesSame
  <2>5. \A c \in Counters : Happened(c)' = Happened(c)
    BY <2>4
  <2> QED BY <1>1, <1>3, <1>4, <2>1, <2>2, <2>3, <2>5, ConservesDrops, CountKept DEF CountInv
<1>6. CASE (Faults \/ \E s \in Servers : Shutdown(s)) /\ UNCHANGED metricsVars
  <2>1. [Next]_vars
    BY <1>6, ObservedIsNext
  <2>2. \E b \in Budgets : Spend(b)
    <3>1. "fault" \in Budgets /\ "shutdown" \in Budgets
      BY DEF Budgets
    <3> QED BY <1>6, <3>1 DEF Faults, IntakeFault, SettleFault, StartFault, CleanupFault, WorkerFault, Shutdown
  <2>3. ~Undisturbed'
    BY <1>1, <2>2, SpendingDisturbs
  <2>4. MetricsTypeOK' /\ \A c \in Counters : Conserves(c)
    BY <1>1, <1>6, MetricsUntouched
  <2> QED BY <1>1, <1>4, <2>1, <2>3, <2>4, ConservesDrops, CountKept DEF CountInv
<1>7. ASSUME NEW r \in Runs, ObservedStart(r) PROVE CountInv'
  <2> DEFINE cs == IF run[r].job \in Handled THEN {"processed"} ELSE {}
  <2>1. WorkerStart(r) /\ EmitFrom(run[r].at, cs) /\ [Next]_vars
    BY <1>7, ObservedIsNext DEF ObservedStart
  <2>2. run[r].at \in Servers
    BY <1>1, <2>1, HeldRun DEF Custody, Grounded, WorkerStart
  <2>3. cs \in SUBSET Counters /\ UNCHANGED budget
    BY <2>1 DEF Counters, WorkerStart
  <2>4. \A c \in Counters : Happened(c)' = Happened(c) + IF c \in cs THEN 1 ELSE 0
    <3>1. \A c \in Counters : Happened(c) \in Int
      BY <1>1, HappenedTypes
    <3>2. /\ \A c \in Counters \ {"processed"} : Happened(c)' = Happened(c)
          /\ Happened("processed")' = Happened("processed") + IF run[r].job \in Handled THEN 1 ELSE 0
      BY <1>1, <2>1, StartHappens
    <3> QED BY <3>1, <3>2
  <2> HIDE DEF cs
  <2>5. MetricsTypeOK' /\ CountersAccount' /\ DatedWithinTotal'
    BY <1>4, <2>1, <2>2, <2>3, <2>4, CountEvent
  <2> QED BY <1>4, <2>1, <2>5 DEF CountInv
<1>8. ASSUME NEW s \in Servers, ObservedFinish(s) PROVE CountInv'
  <2> DEFINE cs == SettledEvents(loop[s].cur)
  <2>1. Finish(s) /\ EmitFrom(s, cs) /\ [Next]_vars
    BY <1>8, ObservedIsNext DEF ObservedFinish
  <2>2. loop[s].pc = "finish" /\ SettleEffect(loop[s].cur) /\ UNCHANGED budget
    BY <2>1 DEF Finish
  <2>3. /\ cs \in SUBSET (Counters \ {"processed"})
        /\ \A c \in Counters \ {"processed"} : Happened(c)' = Happened(c) + IF c \in cs THEN 1 ELSE 0
    <3>1. "completed" \in Counters \ {"processed"}
      BY DEF Counters
    <3> QED BY <1>1, <2>2, <3>1, EffectHappens
  <2>4. Happened("processed")' = Happened("processed")
    BY <1>1, <2>1, FinishHappens
  <2> HIDE DEF cs
  <2>5. \A c \in Counters : Happened(c)' = Happened(c) + IF c \in cs THEN 1 ELSE 0
    <3>1. \A c \in Counters : Happened(c) \in Int
      BY <1>1, HappenedTypes
    <3> QED BY <2>3, <2>4, <3>1
  <2>6. MetricsTypeOK' /\ CountersAccount' /\ DatedWithinTotal'
    BY <1>4, <2>1, <2>2, <2>3, <2>5, CountEvent
  <2> QED BY <1>4, <2>1, <2>6 DEF CountInv
<1>9. ASSUME NEW s \in Servers, ObservedGone(s) PROVE CountInv'
  <2>1. [Next]_vars /\ DropListeners(s) /\ (Exit(s) \/ Crash(s))
    BY <1>9, ObservedIsNext DEF ObservedGone
  <2>2. MetricsTypeOK' /\ \A c \in Counters : Drops(c)
    BY <1>1, <2>1, GoneDrops
  <2>3. ~Undisturbed'
    <3>1. CASE Exit(s)
      BY <1>1, <1>3, <3>1 DEF Exit, Charged
    <3>2. CASE Crash(s)
      BY <1>1, <3>2, SpendingDisturbs DEF Crash, Budgets
    <3> QED BY <2>1, <3>1, <3>2
  <2> QED BY <1>1, <1>4, <2>1, <2>2, <2>3, CountKept DEF CountInv
<1>10. ASSUME NEW s \in Servers, PluginFault(s) PROVE CountInv'
  <2>1. /\ Spend("fault") /\ UNCHANGED <<storeVars, proc, intake, loop, run, history>>
        /\ UNCHANGED metricsVars \/ ListenerFault(s)
    BY <1>10 DEF PluginFault
  <2>2. Custody' /\ Charged' /\ ~Undisturbed'
    BY <1>1, <2>1, PluginFaultKeeps
  <2>3. s \in Emitters
    BY ObservedAssumption
  <2>4. MetricsTypeOK' /\ \A c \in Counters : Drops(c)
    BY <1>1, <2>1, <2>3, MetricsUntouched, FaultDrops, ConservesDrops
  <2>5. \A c \in Counters \ {"processed"} : Happened(c)' = Happened(c)
    BY <2>1, OutcomesSame DEF storeVars, history
  <2>6. \A c \in Counters : Happened(c) \in Int
    BY <1>1, HappenedTypes
  <2>7. \A c \in Counters \ {"processed"} : Happened(c)' >= Happened(c)
    BY <2>5, <2>6
  <2> QED BY <1>1, <1>2, <2>2, <2>4, <2>7, CountKept DEF CountInv
<1>11. ASSUME NEW s \in Servers, Listening(s) PROVE CountInv'
  <2>1. ListenerStep(s) /\ UNCHANGED vars
    BY <1>11 DEF Listening
  <2>2. s \in Emitters
    BY ObservedAssumption
  <2>3. MetricsTypeOK' /\ \A c \in Counters : Conserves(c)
    BY <1>1, <2>1, <2>2, TotalConserves, DatedConserves DEF ListenerStep
  <2>4. QuietStep
    BY <2>1 DEF QuietStep
  <2>5. UNCHANGED <<completed, failures, zset, budget>> /\ BegunRuns' = BegunRuns
    BY <1>1, <2>4, QuietOutcomes, QuietBegins
  <2>6. \A c \in Counters : Happened(c)' = Happened(c)
    BY <2>5, OutcomesSame
  <2>7. [Next]_vars
    BY <2>1
  <2> QED BY <1>1, <1>3, <1>4, <2>3, <2>5, <2>6, <2>7, ConservesDrops, CountKept DEF CountInv
<1> QED BY <1>5, <1>6, <1>7, <1>8, <1>9, <1>10, <1>11, ObservedSteps

LEMMA CountStart == ObservedInit => CountInv
<1> SUFFICES ASSUME ObservedInit PROVE CountInv
  OBVIOUS
<1>1. Init /\ MetricsInit
  BY DEF ObservedInit
<1>2. Custody /\ Charged
  BY <1>1, CustodyInit, ChargedInit
<1>3. MetricsTypeOK
  BY <1>1 DEF MetricsInit, MetricsTypeOK
<1>4. ASSUME NEW c \in Counters
      PROVE  total[c] = 0 /\ Under(c, "total") = 0 /\ Under(c, "dated") = 0 /\ Charted(c) = 0
  <2>1. \A step : Under(c, step) = 0
    <3> TAKE step
    <3>1. \A l \in Waiting(c, step) : pending[l] = 0
      BY <1>1 DEF MetricsInit, Waiting
    <3> QED BY <3>1, FiniteListeners, SumOfZeros DEF Under, Waiting
  <2>2. \A d \in Days : dated[c][d] = 0
    BY <1>1 DEF MetricsInit
  <2>3. Charted(c) = 0
    BY <1>3, <2>2, FiniteDays, ChartOfDays, SumOfZeros
  <2> QED BY <1>1, <2>1, <2>3 DEF MetricsInit
<1>5. /\ completed = {} /\ zset["dead"] = {} /\ BegunRuns = {}
      /\ SumFunctionOnSet(failures, Jobs) = 0 /\ SumFunctionOnSet(failures, Handled) = 0
  <2>1. completed = {} /\ zset["dead"] = {} /\ BegunRuns = {}
    BY <1>1 DEF Init, StoreInit, SetNames, BegunRuns, FreeRun, Settling
  <2>2. \A j \in Jobs : failures[j] = 0
    BY <1>1 DEF Init
  <2>3. Handled \subseteq Jobs /\ IsFiniteSet(Jobs) /\ IsFiniteSet(Handled)
    BY <1>2, HappenedTypes, ServerAssumption DEF Custody, Grounded, Held
  <2>4. \A j \in Handled : failures[j] = 0
    BY <2>2, <2>3
  <2> QED BY <2>1, <2>2, <2>3, <2>4, SumOfZeros
<1>6. \A c \in Counters : Happened(c) = 0
  <2>1. Cardinality({}) = 0
    BY FS_EmptySet
  <2>2. completed \cap Handled = {}
    BY <1>5
  <2>3. Cardinality(BegunRuns) = 0 /\ Cardinality(completed \cap Handled) = 0
    BY <1>5, <2>1, <2>2, Zenon
  <2>4. Cardinality(completed) = 0 /\ Cardinality(zset["dead"]) = 0
    BY <1>5, <2>1, Zenon
  <2>5. Happened("processed") = 0
    BY <1>5, <2>3, Attempts
  <2>6. Happened("completed") = 0 /\ Happened("errored") = 0 /\ Happened("died") = 0
    BY <1>5, <2>4 DEF Happened
  <2> QED BY <2>5, <2>6 DEF Counters
<1> QED BY <1>2, <1>3, <1>4, <1>6, ChartWithin DEF CountInv, CountersAccount

LEMMA CountHolds == ObservedSpec => []CountInv
BY CountStart, CountNext, PTL DEF ObservedSpec

\* The counters of the panel and the listeners on their way to them never tell
\* of an outcome that did not happen, whatever calls fail and whatever
\* processes die; and they tell of every outcome, and of every attempt that was
\* begun, until something fails or stops.
THEOREM CountersTellTheTruth == ObservedSpec => []CountersAccount
BY CountHolds, PTL DEF CountInv

\* The chart of the days never shows more than the totals, and shows as much
\* but for the listeners between their two INCRs.
THEOREM ChartNeverExceedsTotals == ObservedSpec => []DatedWithinTotal
BY CountHolds, PTL DEF CountInv
=============================================================================
