------------------------------ MODULE Registry ------------------------------
(***************************************************************************)
(* The records "workers/<name>" of Redis: the Heartbeat plugin of each     *)
(* server writes its own every 250ms and deletes it when the server shuts  *)
(* down; the client library lists them and deletes those not written for   *)
(* 15 seconds; the Workers widget of the panel shows the list.             *)
(*                                                                         *)
(* A record is abstracted to whether its lastBeat is older than 15         *)
(* seconds.  A record may become old at any time: a stalled server and a   *)
(* dead one look alike.                                                    *)
(***************************************************************************)
EXTENDS Integers, FiniteSets

CONSTANTS
    Workers,    \* names of servers
    Inquiries,  \* bound: calls of getWorkerInfo under way at a time
    MaxBeats    \* bound: heartbeats of one server under way at a time

ASSUME RegistryAssumption == MaxBeats \in Nat

VARIABLES
    heart,      \* the interval of each server: "beating", "clearing" its record
                \* in cleanup, "failed" there, or "still"
    beats,      \* heartbeats that have passed the isShuttingDown check
    record,     \* the records
    inquiry,    \* calls of getWorkerInfo
    widget      \* the Workers widget: "mounted" or "crashed"

registryVars == <<heart, beats, record, inquiry, widget>>

NoInquiry == [pc |-> "idle", kind |-> "show", keys |-> {}, read |-> {}, old |-> {},
              missing |-> {}, atRest |-> {}, failed |-> {}]

\* A panel opened while the workers of ws run, the others being dead.
RegistryInit(ws) ==
    /\ heart = [w \in Workers |-> IF w \in ws THEN "beating" ELSE "still"]
    /\ beats = [w \in Workers |-> 0]
    /\ record = [w \in Workers |-> IF w \in ws THEN "none" ELSE "old"]
    /\ inquiry = [i \in Inquiries |-> NoInquiry]
    /\ widget = "mounted"

-----------------------------------------------------------------------------
(* Heartbeat *)

\* The interval fires: not shutting down, a client of the pool is asked for.
Beat(w) ==
    /\ heart[w] = "beating"
    /\ beats[w] < MaxBeats
    /\ beats' = [beats EXCEPT ![w] = @ + 1]
    /\ UNCHANGED <<heart, record, inquiry, widget>>

\* Mutant of UpdateWorkerInfo: only a record that is there is written.
UpdateKnown(w) ==
    /\ beats[w] > 0
    /\ beats' = [beats EXCEPT ![w] = @ - 1]
    /\ record' = [record EXCEPT ![w] = IF @ = "none" THEN @ ELSE "fresh"]
    /\ UNCHANGED <<heart, inquiry, widget>>

\* updateWorkerInfo: SET of the record, with the time of now.
UpdateWorkerInfo(w) ==
    /\ beats[w] > 0
    /\ beats' = [beats EXCEPT ![w] = @ - 1]
    /\ record' = [record EXCEPT ![w] = "fresh"]
    /\ UNCHANGED <<heart, inquiry, widget>>

\* cleanup: the flag is set and the interval cleared ...
StopHeart(w) ==
    /\ heart[w] = "beating"
    /\ heart' = [heart EXCEPT ![w] = "clearing"]
    /\ UNCHANGED <<beats, record, inquiry, widget>>

\* The DEL of a record.
Deleted(w) == record' = [record EXCEPT ![w] = "none"]

\* ... then clearWorkerInfo: DEL, while a beat may still be on its way.
ClearWorkerInfo(w) ==
    /\ heart[w] = "clearing"
    /\ heart' = [heart EXCEPT ![w] = "still"]
    /\ Deleted(w)
    /\ UNCHANGED <<beats, inquiry, widget>>

\* The DEL fails or its answer is lost: cleanup rejects.
ClearFault(w) ==
    /\ heart[w] = "clearing"
    /\ heart' = [heart EXCEPT ![w] = "failed"]
    /\ UNCHANGED record \/ Deleted(w)
    /\ UNCHANGED <<beats, inquiry, widget>>

\* The SET fails or its answer is lost; the next beat does not care.
BeatFault(w) ==
    /\ beats[w] > 0
    /\ beats' = [beats EXCEPT ![w] = @ - 1]
    /\ UNCHANGED <<heart, record, inquiry, widget>>

\* The process of w is gone.
StopBeating(w) ==
    /\ heart' = [heart EXCEPT ![w] = "still"]
    /\ beats' = [beats EXCEPT ![w] = 0]
    /\ UNCHANGED <<record, inquiry, widget>>

\* 15 seconds pass without a beat.
Ages(w) ==
    /\ record[w] = "fresh"
    /\ record' = [record EXCEPT ![w] = "old"]
    /\ UNCHANGED <<heart, beats, inquiry, widget>>

-----------------------------------------------------------------------------
(* Client and panel *)

\* scanAll("workers/*"): the first step of GET /workers and of
\* POST /workers/cleanup.
Ask(i, kind) ==
    /\ inquiry[i] = NoInquiry /\ widget # "crashed"
    /\ inquiry' = [inquiry EXCEPT ![i] = [NoInquiry EXCEPT !.pc = "get", !.kind = kind,
                        !.keys = {w \in Workers : record[w] # "none"},
                        !.atRest = {w \in Workers : heart[w] \in {"still", "failed"}
                                        /\ beats[w] = 0 /\ record[w] = "old"}]]
    /\ UNCHANGED <<heart, beats, record, widget>>

\* GET of one record.  It is read twice and the second answer counts; the
\* parse of a missing one is null.
GetOne(i, w) ==
    /\ inquiry[i].pc = "get"
    /\ w \in inquiry[i].keys
    /\ inquiry' = [inquiry EXCEPT
            ![i].keys = @ \ {w}, ![i].read = @ \cup {w},
            ![i].missing = IF record[w] = "none" THEN @ \cup {w} ELSE @,
            ![i].old = IF record[w] = "old" THEN @ \cup {w} ELSE @]
    /\ UNCHANGED <<heart, beats, record, widget>>

\* The inquiry fails, or has been answered; a next one may be made.
Over(i) == inquiry' = [inquiry EXCEPT ![i] = NoInquiry]

\* A GET fails, and the inquiry with it.
GetFault(i) ==
    /\ inquiry[i].pc = "get" /\ inquiry[i].keys # {}
    /\ Over(i)
    /\ UNCHANGED <<heart, beats, record, widget>>

\* The sort compares lastBeat, which throws on a null, but compares nothing
\* when there is one row only; a list of one null is then answered and throws
\* where the widget renders it, and React unmounts the page.
ShowWorkers(i) ==
    LET q == inquiry[i] IN
    /\ q.pc = "get" /\ q.kind = "show" /\ q.keys = {}
    /\ widget' = IF q.missing # {} /\ Cardinality(q.read) = 1 THEN "crashed" ELSE widget
    /\ Over(i)
    /\ UNCHANGED <<heart, beats, record>>

\* Mutant of CleanOld: the comparison with 15 seconds ago the other way round.
CleanFresh(i) ==
    LET q == inquiry[i] IN
    /\ q.pc = "get" /\ q.kind = "clean" /\ q.keys = {}
    /\ IF q.missing # {}
       THEN Over(i)
       ELSE inquiry' = [inquiry EXCEPT ![i].pc = "del", ![i].old = q.read \ q.old]
    /\ UNCHANGED <<heart, beats, record, widget>>

\* cleanUpDeadWorkers: the filter throws on a null; it keeps the old ones.
CleanOld(i) ==
    LET q == inquiry[i] IN
    /\ q.pc = "get" /\ q.kind = "clean" /\ q.keys = {}
    /\ IF q.missing # {}
       THEN Over(i)
       ELSE inquiry' = [inquiry EXCEPT ![i].pc = "del"]
    /\ UNCHANGED <<heart, beats, record, widget>>

\* The DELs, one per worker read as old, whatever has become of it.
DelOne(i, w) ==
    /\ inquiry[i].pc = "del"
    /\ w \in inquiry[i].old
    /\ Deleted(w)
    /\ inquiry' = [inquiry EXCEPT ![i].old = @ \ {w}]
    /\ UNCHANGED <<heart, beats, widget>>

\* One of them fails or its answer is lost: it is caught and logged, and the
\* worker not counted; the cleanup goes on.
DelFault(i, w) ==
    /\ inquiry[i].pc = "del"
    /\ w \in inquiry[i].old
    /\ UNCHANGED record \/ Deleted(w)
    /\ inquiry' = [inquiry EXCEPT ![i].old = @ \ {w}, ![i].failed = @ \cup {w}]
    /\ UNCHANGED <<heart, beats, widget>>

CleanDone(i) ==
    /\ inquiry[i].pc = "del" /\ inquiry[i].old = {}
    /\ inquiry' = [inquiry EXCEPT ![i].pc = "done"]
    /\ UNCHANGED <<heart, beats, record, widget>>

\* The answer to POST /workers/cleanup.
Cleaned(i) ==
    /\ inquiry[i].pc = "done"
    /\ Over(i)
    /\ UNCHANGED <<heart, beats, record, widget>>

InquiryStep(i) ==
    \/ \E kind \in {"show", "clean"} : Ask(i, kind)
    \/ \E w \in Workers : GetOne(i, w) \/ DelOne(i, w) \/ DelFault(i, w)
    \/ GetFault(i) \/ ShowWorkers(i) \/ CleanOld(i) \/ CleanDone(i) \/ Cleaned(i)

-----------------------------------------------------------------------------
(* Properties *)

\* "if a machine somehow comes back to life its heartbeat data will reappear"
\* (comment of cleanUpDeadWorkers): a server that is not shutting down is
\* listed again and again, although a cleanup that read an old record may
\* delete the new one that has come in the meantime.
LiveWorkerReappears ==
    \A w \in Workers : []<>(record[w] # "none" \/ heart[w] # "beating")

\* A cleanup that answers has removed the record of every server that was dead
\* for 15 seconds when it began, of a crashed one as well as one whose last beat
\* was written after its shutdown had deleted the record, or whose shutdown
\* failed to delete it: except where the DEL of that very record failed, which
\* the answer does not tell.
CleanupRemovesTheDead ==
    \A i \in Inquiries : inquiry[i].kind = "clean" /\ inquiry[i].pc = "done" =>
        \A w \in inquiry[i].atRest : record[w] = "none" \/ w \in inquiry[i].failed
=============================================================================
