---------------------------- MODULE AnalysisRun ----------------------------
(***************************************************************************)
(* POST /analysis/run, GET /analysis/latest and what they share: the lock  *)
(* and the cached result of a request's window (Redis), and the snapshot   *)
(* and action cards that each instance saves in its database.              *)
(*                                                                         *)
(* One owner and mode.  The lock and the cached result are named by the    *)
(* window the request asks for, which may be None; the snapshot and the    *)
(* cards are named by the number of matches that were analysed.  So two    *)
(* requests may hold different locks and save under one name: here all of  *)
(* them analyse equally many matches.  Results are numbered by created_at, *)
(* which a run takes before it saves.                                      *)
(***************************************************************************)
EXTENDS Integers

CONSTANTS
    Workers,       \* requests to /analysis/run
    Readers,       \* requests to /analysis/latest
    Keys,          \* windows asked for
    KeyOf,         \* KeyOf[p]: the window that request p names
    Instances,     \* server processes, each with its database
    InstanceOf,    \* InstanceOf[p]: the process that serves p
    Prints,        \* request fingerprints
    PrintOf,       \* PrintOf[w]: the fingerprint of w
    NoPrint,       \* a result without a request_fingerprint
    NoOne,         \* nobody holds the lock
    MaxRuns        \* bound: analyses that get as far as a result

ASSUME KeyOfAssumption == KeyOf \in [Workers \cup Readers -> Keys]
ASSUME InstanceOfAssumption == InstanceOf \in [Workers \cup Readers -> Instances]
ASSUME PrintOfAssumption == PrintOf \in [Workers -> Prints]
ASSUME NoPrintAssumption == NoPrint \notin Prints
ASSUME NoOneAssumption == NoOne \notin Workers
ASSUME MaxRunsAssumption == MaxRuns \in Nat

Results == 1..MaxRuns
NoResult == 0
Entries == [at : {NoResult} \cup Results, print : Prints \cup {NoPrint}]
Nothing == [at |-> NoResult, print |-> NoPrint]

VARIABLES
    owner,     \* owner[k]: whose token the lock of k holds
    cached,    \* cached[k]: the entry under latest_analysis:...:k
    latest,    \* latest[i]: newest created_at among the snapshots of i
    cards,     \* cards[i]: the result whose action cards i holds
    pc,        \* pc[p]: the next step of a worker or a reader
    made,      \* made[p]: the result that p has made or read
    runs,      \* results made so far
    leased,    \* history: workers whose lease has not run out
    answer,    \* history: what a busy worker was answered with
    printed,   \* history: the fingerprint each result was made for
    saved,     \* history: results that some instance has saved
    overran    \* history: a lease has run out under its run

vars == <<owner, cached, latest, cards, pc, made, runs,
          leased, answer, printed, saved, overran>>

Running == {"analyse", "save", "put"}

TypeOK ==
    /\ owner \in [Keys -> Workers \cup {NoOne}]
    /\ cached \in [Keys -> Entries]
    /\ latest \in [Instances -> {NoResult} \cup Results]
    /\ cards \in [Instances -> {NoResult} \cup Results]
    /\ pc \in [Workers \cup Readers ->
                 Running \cup {"idle", "busy", "release", "snapshot", "store"}]
    /\ made \in [Workers \cup Readers -> {NoResult} \cup Results]
    /\ runs \in 0..MaxRuns
    /\ leased \subseteq {w \in Workers : owner[KeyOf[w]] = w}
    /\ answer \in [Workers -> {NoResult} \cup Results]
    /\ printed \in [Results -> Prints \cup {NoPrint}]
    /\ saved \subseteq 1..runs
    /\ overran \in BOOLEAN

Init ==
    /\ owner = [k \in Keys |-> NoOne]
    /\ cached = [k \in Keys |-> Nothing]
    /\ latest = [i \in Instances |-> NoResult]
    /\ cards = [i \in Instances |-> NoResult]
    /\ pc = [p \in Workers \cup Readers |-> "idle"]
    /\ made = [p \in Workers \cup Readers |-> NoResult]
    /\ runs = 0
    /\ leased = {}
    /\ answer = [w \in Workers |-> NoResult]
    /\ printed = [r \in Results |-> NoPrint]
    /\ saved = {}
    /\ overran = FALSE

Goto(p, place) == pc' = [pc EXCEPT ![p] = place]

-----------------------------------------------------------------------------
(* POST /analysis/run *)

\* A run that starts whether or not the lock is free.
AskOverwrites(w) ==
    /\ pc[w] = "idle"
    /\ answer' = [answer EXCEPT ![w] = NoResult]
    /\ owner' = [owner EXCEPT ![KeyOf[w]] = w]
    /\ leased' = leased \cup {w}
    /\ Goto(w, "analyse")
    /\ UNCHANGED <<cached, latest, cards, made, runs, printed, saved, overran>>

Ask(w) ==
    /\ pc[w] = "idle"
    /\ answer' = [answer EXCEPT ![w] = NoResult]
    /\ \/ /\ owner[KeyOf[w]] = NoOne
          /\ owner' = [owner EXCEPT ![KeyOf[w]] = w]
          /\ leased' = leased \cup {w}
          /\ Goto(w, "analyse")
       \/ /\ owner[KeyOf[w]] # NoOne
          /\ Goto(w, "busy")
          /\ UNCHANGED <<owner, leased>>
    /\ UNCHANGED <<cached, latest, cards, made, runs, printed, saved, overran>>

\* A busy request that is answered with whatever its window has cached.
AnswerBusyUnchecked(w) ==
    /\ pc[w] = "busy"
    /\ answer' = [answer EXCEPT ![w] = cached[KeyOf[w]].at]
    /\ Goto(w, "idle")
    /\ UNCHANGED <<owner, cached, latest, cards, made, runs, leased, printed,
                   saved, overran>>

\* The lock was taken: the cached result of the same request, or 429.
AnswerBusy(w) ==
    /\ pc[w] = "busy"
    /\ LET e == cached[KeyOf[w]]
       IN  answer' = [answer EXCEPT ![w] =
                        IF e.print = PrintOf[w] THEN e.at ELSE NoResult]
    /\ Goto(w, "idle")
    /\ UNCHANGED <<owner, cached, latest, cards, made, runs, leased, printed,
                   saved, overran>>

\* run_analysis up to its snapshot: it takes created_at, or raises.
Analyse(w) ==
    /\ pc[w] = "analyse"
    /\ \/ /\ runs < MaxRuns
          /\ runs' = runs + 1
          /\ made' = [made EXCEPT ![w] = runs']
          /\ printed' = [printed EXCEPT ![runs'] = PrintOf[w]]
          /\ Goto(w, "save")
       \/ /\ Goto(w, "release")
          /\ UNCHANGED <<runs, made, printed>>
    /\ UNCHANGED <<owner, cached, latest, cards, leased, answer, saved, overran>>

\* A run that goes on when its transaction has failed.
SaveIgnored(w) ==
    /\ pc[w] = "save"
    /\ Goto(w, "put")
    /\ \/ UNCHANGED <<latest, cards, saved>>
       \/ LET i == InstanceOf[w]
          IN  /\ latest' = [latest EXCEPT ![i] = IF @ < made[w] THEN made[w] ELSE @]
              /\ cards' = [cards EXCEPT ![i] = made[w]]
              /\ saved' = saved \cup {made[w]}
    /\ UNCHANGED <<owner, cached, made, runs, leased, answer, printed, overran>>

\* One transaction: insert the snapshot, replace the cards; or it raises.
Save(w) ==
    /\ pc[w] = "save"
    /\ \/ LET i == InstanceOf[w]
          IN  /\ latest' = [latest EXCEPT ![i] = IF @ < made[w] THEN made[w] ELSE @]
              /\ cards' = [cards EXCEPT ![i] = made[w]]
              /\ saved' = saved \cup {made[w]}
              /\ Goto(w, "put")
       \/ /\ Goto(w, "release")
          /\ UNCHANGED <<latest, cards, saved>>
    /\ UNCHANGED <<owner, cached, made, runs, leased, answer, printed, overran>>

Put(w) ==
    /\ pc[w] = "put"
    /\ cached' = [cached EXCEPT ![KeyOf[w]] =
                    [at |-> made[w], print |-> PrintOf[w]]]
    /\ Goto(w, "release")
    /\ UNCHANGED <<owner, latest, cards, made, runs, leased, answer, printed,
                   saved, overran>>

\* A release that frees the lock whoever has it by now.
ReleaseUnchecked(w) ==
    /\ pc[w] = "release"
    /\ owner' = [owner EXCEPT ![KeyOf[w]] = NoOne]
    /\ leased' = leased \ {w}
    /\ Goto(w, "idle")
    /\ UNCHANGED <<cached, latest, cards, made, runs, answer, printed, saved,
                   overran>>

Release(w) ==
    /\ pc[w] = "release"
    /\ owner' = [owner EXCEPT ![KeyOf[w]] = IF @ = w THEN NoOne ELSE @]
    /\ leased' = leased \ {w}
    /\ Goto(w, "idle")
    /\ UNCHANGED <<cached, latest, cards, made, runs, answer, printed, saved,
                   overran>>

-----------------------------------------------------------------------------
(* GET /analysis/latest *)

Look(r) ==
    /\ pc[r] = "idle"
    /\ cached[KeyOf[r]] = Nothing
    /\ Goto(r, "snapshot")
    /\ UNCHANGED <<owner, cached, latest, cards, made, runs, leased, answer,
                   printed, saved, overran>>

ReadSnapshot(r) ==
    /\ pc[r] = "snapshot"
    /\ made' = [made EXCEPT ![r] = latest[InstanceOf[r]]]
    /\ Goto(r, IF made'[r] = NoResult THEN "idle" ELSE "store")
    /\ UNCHANGED <<owner, cached, latest, cards, runs, leased, answer, printed,
                   saved, overran>>

\* The snapshot carries no fingerprint.
WriteBack(r) ==
    /\ pc[r] = "store"
    /\ cached' = [cached EXCEPT ![KeyOf[r]] =
                    [at |-> made[r], print |-> NoPrint]]
    /\ Goto(r, "idle")
    /\ UNCHANGED <<owner, latest, cards, made, runs, leased, answer, printed,
                   saved, overran>>

-----------------------------------------------------------------------------
(* time and the host *)

ExpireResult(k) ==
    /\ cached[k] # Nothing
    /\ cached' = [cached EXCEPT ![k] = Nothing]
    /\ UNCHANGED <<owner, latest, cards, pc, made, runs, leased, answer, printed,
                   saved, overran>>

\* The 150 s of a lock are over, its run may still be going on.
LeaseEnds(k) ==
    /\ owner[k] # NoOne
    /\ owner' = [owner EXCEPT ![k] = NoOne]
    /\ leased' = leased \ {owner[k]}
    /\ overran' = (overran \/ pc[owner[k]] \in Running)
    /\ UNCHANGED <<cached, latest, cards, pc, made, runs, answer, printed, saved>>

\* An instance is replaced: its requests and its database are gone, the locks
\* they held stay.
Replace(i) ==
    /\ latest' = [latest EXCEPT ![i] = NoResult]
    /\ cards' = [cards EXCEPT ![i] = NoResult]
    /\ pc' = [p \in Workers \cup Readers |->
                IF InstanceOf[p] = i THEN "idle" ELSE pc[p]]
    /\ UNCHANGED <<owner, cached, made, runs, leased, answer, printed, saved,
                   overran>>

WorkerStep(w) ==
    Ask(w) \/ AnswerBusy(w) \/ Analyse(w) \/ Save(w) \/ Put(w) \/ Release(w)

ReaderStep(r) == Look(r) \/ ReadSnapshot(r) \/ WriteBack(r)

Next ==
    \/ \E w \in Workers : WorkerStep(w)
    \/ \E r \in Readers : ReaderStep(r)
    \/ \E k \in Keys : ExpireResult(k) \/ LeaseEnds(k)
    \/ \E i \in Instances : Replace(i)

Spec == Init /\ [][Next]_vars

-----------------------------------------------------------------------------
(* properties *)

\* Two runs of one window overlap only when the lease of one has run out, even
\* when a run outlives its lease and then releases.
OverlapPastLease ==
    \A v, w \in Workers :
        v # w /\ KeyOf[v] = KeyOf[w] /\ pc[v] \in Running /\ pc[w] \in Running
            => v \notin leased \/ w \notin leased

\* A request that finds its window being analysed is answered only with the
\* result of a request that asked for exactly the same.
BusyAnswersOwn ==
    \A w \in Workers :
        answer[w] # NoResult => printed[answer[w]] = PrintOf[w]

\* No result is shown whose snapshot could not be saved.
ShownWasSaved ==
    /\ \A k \in Keys : cached[k].at # NoResult => cached[k].at \in saved
    /\ \A w \in Workers : answer[w] # NoResult => answer[w] \in saved

\* While all requests ask for the same window and no run outlives its lease,
\* the action cards are those of the latest snapshot.
CardsOfLatestUnderLock ==
    (\A v, w \in Workers : KeyOf[v] = KeyOf[w]) /\ ~overran =>
        \A i \in Instances : cards[i] = latest[i]

\* A newer cached result is never replaced by an older one.
CacheNeverGoesBack ==
    [][\A k \in Keys : cached'[k].at # NoResult /\ ~overran
                          => cached'[k].at >= cached[k].at]_vars
=============================================================================
