--------------------------- MODULE AgentSessions ---------------------------
(***************************************************************************)
(* How requests run an agent in its conversations (agent_complete_inner):  *)
(* a run that needs the user to fill in a form pauses in a checkpoint of   *)
(* its conversation, whose token the client gets; the next request claims  *)
(* the checkpoint, goes on from it, and either deletes it with its answer  *)
(* or replaces it when it pauses again.  Beside that, AgentRunRegistry     *)
(* keeps one streaming run of the agent going.                             *)
(*                                                                         *)
(* One agent and one user.  AgentCheckpointStore and ConversationStore     *)
(* publish a change only when it is written, so each is one variable,      *)
(* which a restart keeps.  A claim id is fresh, and used by the request    *)
(* that got it only: the request's place in Runs names it.  Left out: the  *)
(* checks of tenants and datasets before the claim, which change nothing;  *)
(* traces, titles and the run's log row, which nothing here reads; what a  *)
(* workflow computes, which is how a run ends.                             *)
(***************************************************************************)
EXTENDS Integers, FiniteSets

CONSTANTS
    Sessions,   \* conversations
    Runs,       \* concurrent requests
    Canvases,   \* the DSLs the agent may have, by fingerprint
    None,       \* no claim, no canvas, no run
    LeaseTicks, \* CLAIM_LEASE_MS, in ticks
    MaxToken,   \* bound: no run pauses once this many resume tokens are out
    Faults      \* the faults that happen: "write", "restart"

ASSUME NoneAssumption == None \notin Runs \cup Canvases
ASSUME LeaseAssumption == LeaseTicks \in Nat \ {0}
ASSUME TokenAssumption == MaxToken \in Nat
ASSUME FaultsAssumption == Faults \subseteq {"write", "restart"}

VARIABLES
    canvas,         \* the fingerprint of the agent's DSL
    sessions,       \* ConversationStore: whether each conversation is there
    checkpoints,    \* AgentCheckpointStore
    nextToken,      \* the next resume token
    runs,           \* the requests
    active,         \* AgentRunRegistry: the streaming run that is registered
    told,           \* history: the tokens clients got with a recorded exchange
    consumed        \* history: the tokens a run that claimed them used up

vars == <<canvas, sessions, checkpoints, nextToken, runs, active, told, consumed>>

\* token is 0 when there is no checkpoint; left is what remains of the lease.
Checkpoint == [token : Nat, canvas : Canvases \cup {None},
               claim : Runs \cup {None}, left : 0 .. LeaseTicks]

\* Between "claim" and the end; token is first the one of the request, 0 for
\* none, then that of the checkpoint the run claimed or saved; left, its own
\* record of the lease.
Place == {"idle", "claim", "preflight", "run", "save", "tell", "cleanup",
          "answer", "delete", "release"}

Run == [at : Place, session : Sessions \cup {None}, token : Nat,
        canvas : Canvases \cup {None}, resumed : BOOLEAN, left : 0 .. LeaseTicks,
        stream : {"no", "asked", "going", "stopped"}]

NoCheckpoint == [token |-> 0, canvas |-> None, claim |-> None, left |-> 0]

Idle == [at |-> "idle", session |-> None, token |-> 0, canvas |-> None,
         resumed |-> FALSE, left |-> 0, stream |-> "no"]

Present(c) == checkpoints[c].token # 0

\* Mutant: a claim is only given up, never taken over.
BusyForEver(c) == checkpoints[c].claim # None

\* A claim that has not expired.
Busy(c) == checkpoints[c].claim # None /\ checkpoints[c].left > 0

\* claimed_record_mut: the checkpoint is there and the claim is still r's.
Claims(r) == LET k == checkpoints[runs[r].session]
             IN  k.token # 0 /\ k.claim = r

Init ==
    /\ canvas \in Canvases
    /\ sessions = [c \in Sessions |-> "absent"]
    /\ checkpoints = [c \in Sessions |-> NoCheckpoint]
    /\ nextToken = 1
    /\ runs = [r \in Runs |-> Idle]
    /\ active = None
    /\ told = [c \in Sessions |-> {}]
    /\ consumed = {}

\* A write fails only in the instances with write faults.
Write(ok) == ok \/ "write" \in Faults

Go(r, at) == runs' = [runs EXCEPT ![r].at = at] /\ UNCHANGED active

\* Mutant: the lease unregisters whatever run is registered.
EndUnregistering(r) ==
    /\ runs' = [runs EXCEPT ![r] = Idle]
    /\ active' = IF runs[r].stream \in {"going", "stopped"} THEN None ELSE active

\* The request is through; AgentRunLease::drop unregisters its own run only.
End(r) ==
    /\ runs' = [runs EXCEPT ![r] = Idle]
    /\ active' = IF active = r THEN None ELSE active

Unclaimed(k) == [k EXCEPT !.claim = None, !.left = 0]

-----------------------------------------------------------------------------
(* Up to the workflow *)

\* The agent is read and the conversation looked up or created.
Start(r, c, stream, token) ==
    /\ runs[r].at = "idle"
    /\ sessions[c] # "deleted"
    /\ sessions' = [sessions EXCEPT ![c] = "live"]
    /\ runs' = [runs EXCEPT ![r] =
         [at |-> "claim", session |-> c, token |-> token, canvas |-> canvas,
          resumed |-> FALSE, left |-> 0, stream |-> stream]]
    /\ UNCHANGED <<canvas, checkpoints, nextToken, active, told, consumed>>

\* AgentCheckpointStore::claim.  A run without a checkpoint is a fresh one.
Fresh(r) ==
    /\ runs[r].at = "claim"
    /\ ~Present(runs[r].session)
    /\ IF runs[r].token = 0 THEN Go(r, "preflight") ELSE End(r)
    /\ UNCHANGED <<canvas, sessions, checkpoints, nextToken, told, consumed>>

\* A token that does not match or a claim that is held is a conflict; one that
\* another canvas was saved with is released again.
Claim(r, ok) ==
    LET c == runs[r].session
        k == checkpoints[c]
        may == runs[r].token \in {0, k.token} /\ ~Busy(c)
    IN  /\ runs[r].at = "claim"
        /\ Present(c)
        /\ Write(ok)
        /\ IF may /\ ok
           THEN /\ checkpoints' = [checkpoints EXCEPT ![c].claim = r, ![c].left = LeaseTicks]
                /\ runs' = [runs EXCEPT
                     ![r].at = IF k.canvas = runs[r].canvas THEN "preflight" ELSE "release",
                     ![r].token = k.token, ![r].resumed = TRUE, ![r].left = LeaseTicks]
                /\ UNCHANGED active
           ELSE End(r) /\ UNCHANGED checkpoints
        /\ UNCHANGED <<canvas, sessions, nextToken, told, consumed>>

\* The chat model cannot be resolved: the request ends, its claim stays.
NoModel(r) ==
    /\ runs[r].at = "preflight"
    /\ End(r)
    /\ UNCHANGED <<canvas, sessions, checkpoints, nextToken, told, consumed>>

\* The workflow starts; a streaming run takes the place of the registered one,
\* which it tells to stop.
Preflight(r) ==
    /\ runs[r].at = "preflight"
    /\ IF runs[r].stream = "asked"
       THEN /\ active' = r
            /\ runs' = [s \in Runs |->
                 IF s = r THEN [runs[s] EXCEPT !.at = "run", !.stream = "going"]
                 ELSE IF s = active THEN [runs[s] EXCEPT !.stream = "stopped"]
                 ELSE runs[s]]
       ELSE Go(r, "run")
    /\ UNCHANGED <<canvas, sessions, checkpoints, nextToken, told, consumed>>

-----------------------------------------------------------------------------
(* The workflow *)

\* await_agent_run_or_cancel: a run that was told to stop, or whose client is
\* gone, is dropped where it waits.  Its claim stays.
Drop(r) ==
    /\ runs[r].at = "run"
    /\ End(r)
    /\ UNCHANGED <<canvas, sessions, checkpoints, nextToken, told, consumed>>

\* An error releases the claim.
Fail(r) ==
    /\ runs[r].at = "run"
    /\ IF runs[r].resumed THEN Go(r, "release") ELSE End(r)
    /\ UNCHANGED <<canvas, sessions, checkpoints, nextToken, told, consumed>>

\* It waits for the user, or it is through.
Pause(r) ==
    /\ runs[r].at = "run"
    /\ Go(r, "save")
    /\ UNCHANGED <<canvas, sessions, checkpoints, nextToken, told, consumed>>

Complete(r) ==
    /\ runs[r].at = "run"
    /\ Go(r, "answer")
    /\ UNCHANGED <<canvas, sessions, checkpoints, nextToken, told, consumed>>

-----------------------------------------------------------------------------
(* A run that waits for the user *)

Saved(r) == [token |-> nextToken, canvas |-> runs[r].canvas, claim |-> None, left |-> 0]

\* save_waiting: only where no checkpoint is.
SaveWaiting(r, ok) ==
    /\ runs[r].at = "save" /\ ~runs[r].resumed
    /\ nextToken <= MaxToken
    /\ Write(ok)
    /\ IF ~Present(runs[r].session) /\ ok
       THEN /\ checkpoints' = [checkpoints EXCEPT ![runs[r].session] = Saved(r)]
            /\ nextToken' = nextToken + 1
            /\ runs' = [runs EXCEPT ![r].at = "tell", ![r].token = nextToken]
            /\ UNCHANGED active
       ELSE End(r) /\ UNCHANGED <<checkpoints, nextToken>>
    /\ UNCHANGED <<canvas, sessions, told, consumed>>

\* replace_claimed; a run that cannot replace its checkpoint releases it.
ReplaceClaimed(r, ok) ==
    /\ runs[r].at = "save" /\ runs[r].resumed
    /\ nextToken <= MaxToken
    /\ Write(ok)
    /\ IF Claims(r) /\ ok
       THEN /\ checkpoints' = [checkpoints EXCEPT ![runs[r].session] = Saved(r)]
            /\ nextToken' = nextToken + 1
            /\ runs' = [runs EXCEPT ![r].at = "tell", ![r].token = nextToken]
            /\ consumed' = consumed \cup {runs[r].token}
            /\ UNCHANGED active
       ELSE Go(r, "release") /\ UNCHANGED <<checkpoints, nextToken, consumed>>
    /\ UNCHANGED <<canvas, sessions, told>>

\* The exchange is recorded and the token returned; or a fresh run takes its
\* checkpoint back.
Tell(r, ok) ==
    LET c == runs[r].session
    IN  /\ runs[r].at = "tell"
        /\ Write(ok)
        /\ CASE sessions[c] = "live" /\ ok ->
                    told' = [told EXCEPT ![c] = @ \cup {runs[r].token}] /\ End(r)
             [] ~(sessions[c] = "live" /\ ok) /\ ~runs[r].resumed ->
                    Go(r, "cleanup") /\ UNCHANGED told
             [] OTHER -> End(r) /\ UNCHANGED told
        /\ UNCHANGED <<canvas, sessions, checkpoints, nextToken, consumed>>

\* Mutants: the cleanup does not look for claims, or at the token.
OwnToken(r) == checkpoints[runs[r].session].token = runs[r].token
AnyUnclaimed(r) == Present(runs[r].session) /\ checkpoints[runs[r].session].claim = None

\* The checkpoint is the one the run saved, and nobody claimed it.
Untouched(r) ==
    LET k == checkpoints[runs[r].session]
    IN  k.token = runs[r].token /\ k.claim = None

\* delete_unclaimed
Cleanup(r, ok) ==
    /\ runs[r].at = "cleanup"
    /\ Write(ok)
    /\ checkpoints' = IF Untouched(r) /\ ok
                      THEN [checkpoints EXCEPT ![runs[r].session] = NoCheckpoint]
                      ELSE checkpoints
    /\ End(r)
    /\ UNCHANGED <<canvas, sessions, nextToken, told, consumed>>

-----------------------------------------------------------------------------
(* A run that has its answer *)

\* The exchange is recorded, then the checkpoint deleted.
Answer(r, ok) ==
    /\ runs[r].at = "answer"
    /\ Write(ok)
    /\ CASE ~runs[r].resumed -> End(r)
         [] runs[r].resumed /\ sessions[runs[r].session] = "live" /\ ok -> Go(r, "delete")
         [] OTHER -> Go(r, "release")
    /\ UNCHANGED <<canvas, sessions, checkpoints, nextToken, told, consumed>>

\* delete_claimed
DeleteClaimed(r, ok) ==
    /\ runs[r].at = "delete"
    /\ Write(ok)
    /\ IF Claims(r) /\ ok
       THEN /\ checkpoints' = [checkpoints EXCEPT ![runs[r].session] = NoCheckpoint]
            /\ consumed' = consumed \cup {runs[r].token}
       ELSE UNCHANGED <<checkpoints, consumed>>
    /\ End(r)
    /\ UNCHANGED <<canvas, sessions, nextToken, told>>

\* release
Release(r, ok) ==
    LET c == runs[r].session
    IN  /\ runs[r].at = "release"
        /\ Write(ok)
        /\ checkpoints' = IF Claims(r) /\ ok
                          THEN [checkpoints EXCEPT ![c] = Unclaimed(checkpoints[c])]
                          ELSE checkpoints
        /\ End(r)
        /\ UNCHANGED <<canvas, sessions, nextToken, told, consumed>>

-----------------------------------------------------------------------------

\* A conversation is deleted; its checkpoint is not.
DeleteSession(c) ==
    /\ sessions[c] = "live"
    /\ sessions' = [sessions EXCEPT ![c] = "deleted"]
    /\ UNCHANGED <<canvas, checkpoints, nextToken, runs, active, told, consumed>>

Edit(dsl) ==
    /\ dsl # canvas
    /\ canvas' = dsl
    /\ UNCHANGED <<sessions, checkpoints, nextToken, runs, active, told, consumed>>

\* Mutant: time goes on below zero.
DownBelow(n) == n - 1

Down(n) == IF n > 0 THEN n - 1 ELSE 0

Tick ==
    /\ \E c \in Sessions : checkpoints[c].left > 0
    /\ checkpoints' = [c \in Sessions |-> [checkpoints[c] EXCEPT !.left = Down(@)]]
    /\ runs' = [r \in Runs |-> [runs[r] EXCEPT !.left = Down(@)]]
    /\ UNCHANGED <<canvas, sessions, nextToken, active, told, consumed>>

\* The process ends; AgentCheckpointStore::new drops the claims it finds.
Restart ==
    /\ "restart" \in Faults
    /\ checkpoints' = [c \in Sessions |-> Unclaimed(checkpoints[c])]
    /\ runs' = [r \in Runs |-> Idle]
    /\ active' = None
    /\ UNCHANGED <<canvas, sessions, nextToken, told, consumed>>

Request(r) ==
    \E c \in Sessions, stream \in {"no", "asked"} :
        \E token \in {0} \cup told[c] : Start(r, c, stream, token)

Advance(r) ==
    \/ Fresh(r) \/ NoModel(r) \/ Preflight(r)
    \/ Drop(r) \/ Fail(r) \/ Pause(r) \/ Complete(r)
    \/ \E ok \in BOOLEAN :
        \/ Claim(r, ok) \/ SaveWaiting(r, ok) \/ ReplaceClaimed(r, ok) \/ Tell(r, ok)
        \/ Cleanup(r, ok) \/ Answer(r, ok) \/ DeleteClaimed(r, ok) \/ Release(r, ok)

Next ==
    \/ \E r \in Runs : Request(r) \/ Advance(r)
    \/ \E c \in Sessions : DeleteSession(c)
    \/ \E dsl \in Canvases : Edit(dsl)
    \/ Tick
    \/ Restart

\* Time passes.  Nothing obliges clients to ask or models to answer.
Fairness == WF_vars(Tick)

Spec == Init /\ [][Next]_vars /\ Fairness

-----------------------------------------------------------------------------
(* Properties *)

\* Every variable has its type.
TypeOK ==
    /\ canvas \in Canvases
    /\ sessions \in [Sessions -> {"absent", "live", "deleted"}]
    /\ checkpoints \in [Sessions -> Checkpoint]
    /\ nextToken \in 1 .. MaxToken + 1
    /\ runs \in [Runs -> Run]
    /\ active \in Runs \cup {None}
    /\ told \in [Sessions -> SUBSET (1 .. MaxToken)]
    /\ consumed \subseteq 1 .. MaxToken

\* While its lease lasts, the checkpoint a run resumes is its own: no cleanup,
\* other claim or late finish of another request replaces or deletes it.
Resuming(r) ==
    runs[r].resumed /\ runs[r].at \in {"preflight", "run", "save", "answer", "delete", "release"}

LeaseHonoured ==
    \A r \in Runs : Resuming(r) /\ runs[r].left > 0 =>
        LET k == checkpoints[runs[r].session]
        IN  k.claim = r /\ k.token = runs[r].token

\* A resume token a client was given keeps working until a run that claimed it
\* used it up, across failed writes, restarts and expired claims.
PromisesKept ==
    \A c \in Sessions : \A token \in told[c] \ consumed : checkpoints[c].token = token

\* Of the streaming runs of an agent at most one was not told to stop, and it
\* is the one that is registered: the lease of an old one does not unregister it.
OneStream ==
    \A r \in Runs : runs[r].stream = "going" => active = r

\* A paused conversation is available again and again, whatever became of the
\* run that claimed its checkpoint.
StaysResumable == \A c \in Sessions : Busy(c) ~> ~Busy(c)

=============================================================================
