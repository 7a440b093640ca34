------------------------ MODULE AgentSessionsProofs ------------------------
(***************************************************************************)
(* Safety of AgentSessions for any conversations, requests, canvases,      *)
(* lease lengths and faults.                                               *)
(***************************************************************************)
EXTENDS AgentSessions, TLAPS

\* The runs that saved a checkpoint and did not tell its token yet, or failed to.
Untelling(r) == runs[r].at \in {"tell", "cleanup"}

\* A request under way has a conversation, and names a token that was given
\* out, a real one if it claimed or saved a checkpoint.
RunSound(run, next) ==
    /\ run \in Run
    /\ run.at # "idle" => run.session \in Sessions
    /\ run.token < next
    /\ run.resumed \/ run.at \in {"tell", "cleanup", "delete"} => run.token > 0
    /\ run.resumed => run.at # "claim"
    /\ run.at = "delete" => run.resumed

RunsSound ==
    /\ runs \in [Runs -> Run]
    /\ \A r \in Runs : RunSound(runs[r], nextToken)
    /\ active \in Runs \cup {None}

\* So do the stores.
StoresSound ==
    /\ canvas \in Canvases
    /\ sessions \in [Sessions -> {"absent", "live", "deleted"}]
    /\ checkpoints \in [Sessions -> Checkpoint]
    /\ nextToken \in 1 .. MaxToken + 1
    /\ told \in [Sessions -> SUBSET (1 .. MaxToken)]
    /\ consumed \subseteq 1 .. MaxToken
    /\ \A c \in Sessions : checkpoints[c].token < nextToken
    /\ \A c \in Sessions : \A token \in told[c] : token < nextToken

Sound == RunsSound /\ StoresSound

\* A run's own record of its lease is the checkpoint's.
LeaseKnown ==
    \A r \in Runs : Resuming(r) /\ runs[r].left > 0 =>
        LET k == checkpoints[runs[r].session]
        IN  k.claim = r /\ k.token = runs[r].token /\ k.left = runs[r].left

\* A claim is for the checkpoint that the run resumed.
ClaimFits ==
    \A r \in Runs : Resuming(r) /\ checkpoints[runs[r].session].claim = r =>
        checkpoints[runs[r].session].token = runs[r].token

\* A token about to be told is the checkpoint's, or was used up meanwhile.
TellsPending ==
    \A r \in Runs : runs[r].at = "tell" =>
        runs[r].token \in consumed \cup {checkpoints[runs[r].session].token}

\* A token that is not told yet belongs to the one run that saved it.
UntoldOwned ==
    /\ \A r \in Runs : Untelling(r) => \A c \in Sessions : runs[r].token \notin told[c]
    /\ \A r, s \in Runs : Untelling(r) /\ Untelling(s) /\ r # s =>
          runs[r].token # runs[s].token

Promises == ClaimFits /\ TellsPending /\ UntoldOwned /\ PromisesKept

USE NoneAssumption, LeaseAssumption, TokenAssumption, FaultsAssumption

LEMMA SoundInit == Init => Sound
BY DEF Init, Sound, RunsSound, RunSound, StoresSound, NoCheckpoint, Idle, Checkpoint,
       Run, Place

\* One request changes, to one that is as it should be.
LEMMA OneRun ==
    ASSUME Sound, NEW r \in Runs, NEW run, RunSound(run, nextToken'),
           nextToken' >= nextToken, nextToken' \in Nat,
           runs' = [runs EXCEPT ![r] = run], active' \in Runs \cup {None}
    PROVE  RunsSound'
<1>1. runs' \in [Runs -> Run]
  BY DEF Sound, RunsSound, RunSound
<1>2. ASSUME NEW s \in Runs PROVE RunSound(runs'[s], nextToken')
  <2>1. CASE s = r BY <2>1 DEF Sound, RunsSound
  <2>2. CASE s # r
    <3>1. runs'[s] = runs[s] BY <2>2 DEF Sound, RunsSound
    <3>2. runs[s].token \in Nat /\ nextToken \in Nat
      BY DEF Sound, RunsSound, StoresSound, Run
    <3> QED BY <3>1, <3>2 DEF Sound, RunsSound, RunSound
  <2> QED BY <2>1, <2>2
<1> QED BY <1>1, <1>2 DEF RunsSound

LEMMA EndSound ==
    ASSUME Sound, NEW r \in Runs, End(r), nextToken' >= nextToken, nextToken' \in Nat \ {0}
    PROVE  RunsSound'
<1>1. RunSound(Idle, nextToken') BY DEF RunSound, Idle, Run, Place
<1>2. active' \in Runs \cup {None} BY DEF End, Sound, RunsSound
<1> QED BY <1>1, <1>2, OneRun DEF End

LEMMA GoSound ==
    ASSUME Sound, NEW r \in Runs, NEW at \in Place, Go(r, at), nextToken' = nextToken,
           runs[r].at # "idle", at # "claim", at \notin {"tell", "cleanup", "delete"} \/ runs[r].token > 0,
           at # "delete" \/ runs[r].resumed
    PROVE  RunsSound'
<1> DEFINE run == [runs[r] EXCEPT !.at = at]
<1>1. RunSound(runs[r], nextToken) BY DEF Sound, RunsSound
<1>2. run \in Run /\ run.at = at /\ run.session = runs[r].session
        /\ run.token = runs[r].token /\ run.resumed = runs[r].resumed
  BY <1>1 DEF RunSound, Run
<1>3. RunSound(run, nextToken') BY <1>1, <1>2 DEF RunSound
<1>4. runs' = [runs EXCEPT ![r] = run] BY DEF Go, Sound, RunsSound
<1>5. nextToken' >= nextToken /\ nextToken' \in Nat /\ active' \in Runs \cup {None}
  BY DEF Sound, RunsSound, StoresSound, Go
<1> HIDE DEF run
<1> QED BY <1>3, <1>4, <1>5, OneRun

\* What time and a release do to a checkpoint.
LEMMA CheckpointUpdates ==
    ASSUME NEW k \in Checkpoint
    PROVE  /\ Unclaimed(k) \in Checkpoint /\ Unclaimed(k).token = k.token
           /\ Unclaimed(k).claim = None
           /\ [k EXCEPT !.left = Down(@)] \in Checkpoint
           /\ [k EXCEPT !.left = Down(@)].token = k.token
           /\ [k EXCEPT !.left = Down(@)].claim = k.claim
<1>1. Down(k.left) \in 0 .. LeaseTicks BY DEF Down, Checkpoint
<1>2. /\ Unclaimed(k) \in Checkpoint /\ Unclaimed(k).token = k.token
      /\ Unclaimed(k).claim = None
  <2>1. ASSUME NEW x \in Runs \cup {None}, NEW n \in 0 .. LeaseTicks
        PROVE  /\ [k EXCEPT !.claim = x, !.left = n] \in Checkpoint
               /\ [k EXCEPT !.claim = x, !.left = n].token = k.token
               /\ [k EXCEPT !.claim = x, !.left = n].claim = x
    BY DEF Checkpoint
  <2>2. 0 \in 0 .. LeaseTicks OBVIOUS
  <2> QED BY <2>1, <2>2 DEF Unclaimed
<1>3. ASSUME NEW n \in 0 .. LeaseTicks
      PROVE  /\ [k EXCEPT !.left = n] \in Checkpoint
             /\ [k EXCEPT !.left = n].token = k.token
             /\ [k EXCEPT !.left = n].claim = k.claim
  BY DEF Checkpoint
<1> QED BY <1>1, <1>2, <1>3

\* A checkpoint is saved under the next token, or replaced by one that is.
LEMMA SavedSound ==
    ASSUME Sound, NEW r \in Runs, runs[r].at = "save", nextToken <= MaxToken,
           checkpoints' = [checkpoints EXCEPT ![runs[r].session] = Saved(r)],
           nextToken' = nextToken + 1,
           runs' = [runs EXCEPT ![r].at = "tell", ![r].token = nextToken],
           consumed' \subseteq 1 .. MaxToken,
           UNCHANGED <<active, canvas, sessions, told>>
    PROVE  Sound'
<1> DEFINE run == [runs[r] EXCEPT !.at = "tell", !.token = nextToken]
<1>1. /\ RunSound(runs[r], nextToken) /\ nextToken \in 1 .. MaxToken + 1
      /\ active \in Runs \cup {None} /\ runs \in [Runs -> Run]
      /\ checkpoints \in [Sessions -> Checkpoint]
  BY DEF Sound, RunsSound, StoresSound
<1>2. runs' = [runs EXCEPT ![r] = run] BY <1>1
<1>3. /\ run \in Run /\ run.at = "tell" /\ run.token = nextToken
      /\ run.session = runs[r].session
  BY <1>1 DEF RunSound, Run, Place
<1> HIDE DEF run
<1>4. /\ RunSound(run, nextToken') /\ nextToken' >= nextToken /\ nextToken' \in Nat
      /\ active' \in Runs \cup {None}
  BY <1>1, <1>3 DEF RunSound
<1>5. RunsSound' BY <1>2, <1>4, OneRun
<1>6. Saved(r) \in Checkpoint /\ Saved(r).token = nextToken
  BY <1>1 DEF Saved, Checkpoint, RunSound, Run
<1>7. checkpoints' \in [Sessions -> Checkpoint] BY <1>1, <1>6
<1>8. \A c \in Sessions : checkpoints'[c].token < nextToken'
  <2> SUFFICES ASSUME NEW c \in Sessions PROVE checkpoints'[c].token < nextToken'
    OBVIOUS
  <2>1. checkpoints[c].token < nextToken /\ checkpoints[c].token \in Nat
    BY <1>1 DEF Sound, StoresSound, Checkpoint
  <2>2. checkpoints'[c] \in {checkpoints[c], Saved(r)} BY <1>1
  <2> QED BY <1>1, <1>6, <2>1, <2>2
<1>9. \A c \in Sessions : \A token \in told[c] : token < nextToken'
  BY <1>1 DEF Sound, StoresSound
<1>10. StoresSound'
  BY <1>1, <1>7, <1>8, <1>9 DEF Sound, StoresSound
<1> QED BY <1>5, <1>10 DEF Sound

\* Every step keeps the types, and gives out the next token only.
LEMMA SoundStep == Sound /\ [Next]_vars => Sound'
<1> SUFFICES ASSUME Sound, [Next]_vars PROVE Sound'
  OBVIOUS
<1>a. /\ nextToken \in Nat \ {0} /\ MaxToken \in Nat
      /\ checkpoints \in [Sessions -> Checkpoint]
      /\ runs \in [Runs -> Run] /\ \A s \in Runs : RunSound(runs[s], nextToken)
      /\ active \in Runs \cup {None}
  BY DEF Sound, RunsSound, StoresSound
<1>b. ASSUME NEW r \in Runs, runs[r].at # "idle"
      PROVE  /\ runs[r] \in Run /\ runs[r].session \in Sessions
             /\ checkpoints[runs[r].session] \in Checkpoint
             /\ checkpoints[runs[r].session].token < nextToken
  BY <1>a, <1>b DEF Sound, StoresSound, RunSound
<1>1. ASSUME NEW r \in Runs, NEW c \in Sessions, NEW stream \in {"no", "asked"},
             NEW token \in {0} \cup told[c], Start(r, c, stream, token)
      PROVE  Sound'
  <2> DEFINE run == [at |-> "claim", session |-> c, token |-> token, canvas |-> canvas,
                     resumed |-> FALSE, left |-> 0, stream |-> stream]
  <2>1. token \in Nat /\ token < nextToken
    BY <1>a DEF Sound, StoresSound
  <2>2. RunSound(run, nextToken)
    BY <2>1 DEF RunSound, Run, Place, Sound, StoresSound
  <2>3. runs' = [runs EXCEPT ![r] = run] /\ nextToken' = nextToken /\ active' = active
    BY <1>1 DEF Start
  <2> HIDE DEF run
  <2>4. /\ RunSound(run, nextToken')
        /\ nextToken' >= nextToken /\ nextToken' \in Nat /\ active' \in Runs \cup {None}
    BY <1>a, <2>2, <2>3
  <2>5. RunsSound' BY <2>3, <2>4, OneRun
  <2>6. StoresSound' BY <1>1 DEF Start, Sound, StoresSound
  <2> QED BY <2>5, <2>6 DEF Sound
<1>2. ASSUME NEW r \in Runs, Fresh(r) PROVE Sound'
  <2>1. nextToken' = nextToken /\ runs[r].at = "claim" BY <1>2 DEF Fresh
  <2>2. Go(r, "preflight") => RunsSound' BY <1>a, <2>1, GoSound DEF Place
  <2>3. End(r) => RunsSound' BY <1>a, <2>1, EndSound
  <2>4. StoresSound' BY <1>2 DEF Fresh, Sound, StoresSound
  <2> QED BY <1>2, <2>2, <2>3, <2>4 DEF Fresh, Sound
<1>3. ASSUME NEW r \in Runs, NoModel(r) PROVE Sound'
  <2>1. RunsSound' BY <1>a, <1>3, EndSound DEF NoModel
  <2>2. StoresSound' BY <1>3 DEF NoModel, Sound, StoresSound
  <2> QED BY <2>1, <2>2 DEF Sound
<1>4. ASSUME NEW r \in Runs, Preflight(r) PROVE Sound'
  <2>1. StoresSound' BY <1>4 DEF Preflight, Sound, StoresSound
  <2>2. CASE runs[r].stream = "asked"
    <3>1. /\ active' = r
          /\ runs' = [s \in Runs |->
                 IF s = r THEN [runs[s] EXCEPT !.at = "run", !.stream = "going"]
                 ELSE IF s = active THEN [runs[s] EXCEPT !.stream = "stopped"]
                 ELSE runs[s]]
      BY <1>4, <2>2 DEF Preflight
    <3>2. ASSUME NEW s \in Runs PROVE RunSound(runs'[s], nextToken)
      <4>1. RunSound(runs[s], nextToken) /\ runs[r].at = "preflight"
        BY <1>4, <1>a DEF Preflight
      <4>2. RunSound([runs[s] EXCEPT !.stream = "stopped"], nextToken)
        BY <4>1 DEF RunSound, Run
      <4>3. s = r => RunSound([runs[s] EXCEPT !.at = "run", !.stream = "going"], nextToken)
        BY <4>1 DEF RunSound, Run, Place
      <4> QED BY <3>1, <4>1, <4>2, <4>3
    <3>3. runs' \in [Runs -> Run] BY <3>1, <3>2 DEF RunSound
    <3> QED BY <1>4, <2>1, <3>1, <3>2, <3>3 DEF Preflight, Sound, RunsSound
  <2>3. CASE runs[r].stream # "asked"
    <3>1. Go(r, "run") /\ runs[r].at = "preflight" /\ nextToken' = nextToken
      BY <1>4, <2>3 DEF Preflight
    <3>2. RunsSound' BY <3>1, GoSound DEF Place
    <3> QED BY <2>1, <3>2 DEF Sound
  <2> QED BY <2>2, <2>3
<1>5. ASSUME NEW r \in Runs, Drop(r) PROVE Sound'
  <2>1. RunsSound' BY <1>a, <1>5, EndSound DEF Drop
  <2>2. StoresSound' BY <1>5 DEF Drop, Sound, StoresSound
  <2> QED BY <2>1, <2>2 DEF Sound
<1>6. ASSUME NEW r \in Runs, Fail(r) PROVE Sound'
  <2>1. nextToken' = nextToken /\ runs[r].at = "run" BY <1>6 DEF Fail
  <2>2. Go(r, "release") => RunsSound' BY <1>a, <2>1, GoSound DEF Place
  <2>3. End(r) => RunsSound' BY <1>a, <2>1, EndSound
  <2>4. StoresSound' BY <1>6 DEF Fail, Sound, StoresSound
  <2> QED BY <1>6, <2>2, <2>3, <2>4 DEF Fail, Sound
<1>7. ASSUME NEW r \in Runs, Pause(r) \/ Complete(r) PROVE Sound'
  <2>1. /\ nextToken' = nextToken /\ runs[r].at = "run"
        /\ Go(r, "save") \/ Go(r, "answer")
    BY <1>7 DEF Pause, Complete
  <2>2. RunsSound' BY <2>1, GoSound DEF Place
  <2>3. StoresSound' BY <1>7 DEF Pause, Complete, Sound, StoresSound
  <2> QED BY <2>2, <2>3 DEF Sound
<1>9. ASSUME NEW r \in Runs, NEW ok \in BOOLEAN, Claim(r, ok) PROVE Sound'
  <2> DEFINE c == runs[r].session
             k == checkpoints[c]
             at == IF k.canvas = runs[r].canvas THEN "preflight" ELSE "release"
             run == [runs[r] EXCEPT !.at = at, !.token = k.token, !.resumed = TRUE,
                                    !.left = LeaseTicks]
  <2>1. /\ runs[r].at = "claim" /\ k.token # 0
        /\ UNCHANGED <<canvas, sessions, nextToken, told, consumed>>
    BY <1>9 DEF Claim, Present
  <2>2. runs[r] \in Run /\ c \in Sessions /\ k \in Checkpoint /\ k.token < nextToken
    BY <2>1, <1>b
  <2>3. CASE End(r) /\ UNCHANGED checkpoints
    <3>1. RunsSound' BY <1>a, <2>1, <2>3, EndSound
    <3>2. StoresSound' BY <2>1, <2>3 DEF Sound, StoresSound
    <3> QED BY <3>1, <3>2 DEF Sound
  <2>4. CASE ~(End(r) /\ UNCHANGED checkpoints)
    <3>1. /\ checkpoints' = [checkpoints EXCEPT ![c].claim = r, ![c].left = LeaseTicks]
          /\ runs' = [runs EXCEPT ![r] = run]
          /\ active' = active
      BY <1>9, <1>a, <2>4 DEF Claim
    <3>2. RunSound(run, nextToken')
      <4>1. at \in {"preflight", "release"} OBVIOUS
      <4> HIDE DEF at
      <4>a. k.token \in Nat /\ LeaseTicks \in 0 .. LeaseTicks BY <2>2 DEF Checkpoint
      <4> HIDE DEF k
      <4>2. /\ run \in Run /\ run.session = c /\ run.token = k.token /\ run.at = at
        BY <2>2, <4>1, <4>a DEF Run, Place
      <4> USE DEF k
      <4>3. nextToken' = nextToken /\ k.token \in Nat /\ k.token > 0
        BY <2>1, <2>2 DEF Checkpoint
      <4> HIDE DEF run
      <4> QED BY <2>2, <4>1, <4>2, <4>3 DEF RunSound
    <3> HIDE DEF run
    <3>a. nextToken' >= nextToken /\ nextToken' \in Nat /\ active' \in Runs \cup {None}
      BY <1>a, <2>1, <3>1
    <3>3. RunsSound' BY <3>a, <3>1, <3>2, OneRun
    <3>4. checkpoints' \in [Sessions -> Checkpoint]
      BY <1>a, <2>2, <3>1 DEF Checkpoint
    <3>5. \A d \in Sessions : checkpoints'[d].token = checkpoints[d].token
      BY <1>a, <2>2, <3>1 DEF Checkpoint
    <3>6. StoresSound' BY <2>1, <3>4, <3>5 DEF Sound, StoresSound
    <3> QED BY <3>3, <3>6 DEF Sound
  <2> QED BY <2>3, <2>4
<1>10. ASSUME NEW r \in Runs, NEW ok \in BOOLEAN, SaveWaiting(r, ok) PROVE Sound'
  <2>1. CASE End(r) /\ UNCHANGED <<checkpoints, nextToken>>
    <3>1. RunsSound' BY <1>a, <2>1, EndSound
    <3>2. StoresSound' BY <1>10, <2>1 DEF SaveWaiting, Sound, StoresSound
    <3> QED BY <3>1, <3>2 DEF Sound
  <2>2. CASE ~(End(r) /\ UNCHANGED <<checkpoints, nextToken>>)
    <3>1. /\ runs[r].at = "save" /\ nextToken <= MaxToken
          /\ checkpoints' = [checkpoints EXCEPT ![runs[r].session] = Saved(r)]
          /\ nextToken' = nextToken + 1
          /\ runs' = [runs EXCEPT ![r].at = "tell", ![r].token = nextToken]
          /\ UNCHANGED <<active, canvas, sessions, told, consumed>>
      BY <1>10, <2>2 DEF SaveWaiting
    <3>2. consumed' \subseteq 1 .. MaxToken
      BY <3>1 DEF Sound, StoresSound
    <3> QED BY <1>a, <3>1, <3>2, SavedSound
  <2> QED BY <2>1, <2>2
<1>11. ASSUME NEW r \in Runs, NEW ok \in BOOLEAN, ReplaceClaimed(r, ok) PROVE Sound'
  <2>1. CASE Go(r, "release") /\ UNCHANGED <<checkpoints, nextToken, consumed>>
    <3>1. runs[r].at = "save" BY <1>11 DEF ReplaceClaimed
    <3>2. RunsSound' BY <2>1, <3>1, GoSound DEF Place
    <3>3. StoresSound' BY <1>11, <2>1 DEF ReplaceClaimed, Sound, StoresSound
    <3> QED BY <3>2, <3>3 DEF Sound
  <2>2. CASE ~(Go(r, "release") /\ UNCHANGED <<checkpoints, nextToken, consumed>>)
    <3>1. /\ runs[r].at = "save" /\ nextToken <= MaxToken /\ runs[r].resumed
          /\ checkpoints' = [checkpoints EXCEPT ![runs[r].session] = Saved(r)]
          /\ nextToken' = nextToken + 1
          /\ runs' = [runs EXCEPT ![r].at = "tell", ![r].token = nextToken]
          /\ consumed' = consumed \cup {runs[r].token}
          /\ UNCHANGED <<active, canvas, sessions, told>>
      BY <1>11, <2>2 DEF ReplaceClaimed
    <3>2. runs[r].token \in 1 .. MaxToken
      BY <1>a, <1>b, <3>1 DEF RunSound, Run
    <3>3. consumed' \subseteq 1 .. MaxToken
      BY <3>1, <3>2 DEF Sound, StoresSound
    <3> QED BY <1>a, <3>1, <3>3, SavedSound
  <2> QED BY <2>1, <2>2
<1>12. ASSUME NEW r \in Runs, NEW ok \in BOOLEAN, Tell(r, ok) PROVE Sound'
  <2>1. /\ runs[r].at = "tell" /\ runs[r].token \in 1 .. MaxToken
        /\ runs[r].token < nextToken
        /\ UNCHANGED <<canvas, sessions, checkpoints, nextToken, consumed>>
    BY <1>12, <1>a, <1>b DEF Tell, RunSound, Run, Sound, StoresSound
  <2>2. \/ told' = [told EXCEPT ![runs[r].session] = @ \cup {runs[r].token}] /\ End(r)
        \/ Go(r, "cleanup") /\ UNCHANGED told
        \/ End(r) /\ UNCHANGED told
    BY <1>12 DEF Tell
  <2>3. RunsSound'
    <3>1. Go(r, "cleanup") => RunsSound'
      BY <2>1, GoSound DEF Place
    <3>2. End(r) => RunsSound' BY <1>a, <2>1, EndSound
    <3> QED BY <2>2, <3>1, <3>2
  <2>4. StoresSound'
    <3>1. CASE UNCHANGED told BY <2>1, <3>1 DEF Sound, StoresSound
    <3>2. CASE told' = [told EXCEPT ![runs[r].session] = @ \cup {runs[r].token}]
      <4>1. /\ told' \in [Sessions -> SUBSET (1 .. MaxToken)]
            /\ \A c \in Sessions : \A token \in told'[c] : token < nextToken
        BY <1>b, <2>1, <3>2 DEF Sound, StoresSound
      <4> QED BY <2>1, <4>1 DEF Sound, StoresSound
    <3> QED BY <2>2, <3>1, <3>2
  <2> QED BY <2>3, <2>4 DEF Sound
<1>13. ASSUME NEW r \in Runs, NEW ok \in BOOLEAN,
             Cleanup(r, ok) \/ DeleteClaimed(r, ok) \/ Release(r, ok)
      PROVE  Sound'
  <2>1. /\ runs[r].at \in {"cleanup", "delete", "release"} /\ End(r)
        /\ UNCHANGED <<canvas, sessions, nextToken, told>>
    BY <1>13 DEF Cleanup, DeleteClaimed, Release
  <2>2. RunsSound' BY <1>a, <2>1, EndSound
  <2>3. /\ checkpoints' \in [Sessions -> Checkpoint]
        /\ \A c \in Sessions : checkpoints'[c].token < nextToken
    <3> DEFINE c == runs[r].session
    <3>1. c \in Sessions /\ checkpoints[c] \in Checkpoint BY <1>b, <2>1
    <3>2. checkpoints' \in {checkpoints, [checkpoints EXCEPT ![c] = NoCheckpoint],
                            [checkpoints EXCEPT ![c] = Unclaimed(checkpoints[c])]}
      BY <1>13 DEF Cleanup, DeleteClaimed, Release
    <3>3. NoCheckpoint \in Checkpoint /\ NoCheckpoint.token = 0
      BY DEF NoCheckpoint, Checkpoint
    <3>4. /\ Unclaimed(checkpoints[c]) \in Checkpoint
          /\ Unclaimed(checkpoints[c]).token = checkpoints[c].token
      BY <3>1, CheckpointUpdates
    <3>5. \A d \in Sessions : checkpoints[d].token < nextToken
      BY DEF Sound, StoresSound
    <3> HIDE DEF c
    <3> QED BY <1>a, <3>1, <3>2, <3>3, <3>4, <3>5
  <2>4. consumed' \subseteq 1 .. MaxToken
    <3>1. CASE DeleteClaimed(r, ok)
      <4>1. Claims(r) => runs[r].token \in 1 .. MaxToken
        BY <1>a, <3>1 DEF DeleteClaimed, RunSound, Run, Sound, StoresSound
      <4> QED BY <3>1, <4>1 DEF DeleteClaimed, Sound, StoresSound
    <3>2. CASE ~DeleteClaimed(r, ok)
      BY <1>13, <3>2 DEF Cleanup, Release, Sound, StoresSound
    <3> QED BY <3>1, <3>2
  <2>5. StoresSound' BY <2>1, <2>3, <2>4 DEF Sound, StoresSound
  <2> QED BY <2>2, <2>5 DEF Sound
<1>14. ASSUME NEW r \in Runs, NEW ok \in BOOLEAN, Answer(r, ok) PROVE Sound'
  <2>1. /\ runs[r].at = "answer" /\ nextToken' = nextToken
        /\ (runs[r].resumed /\ Go(r, "delete")) \/ Go(r, "release") \/ End(r)
    BY <1>14 DEF Answer
  <2>a. runs[r].resumed => runs[r].token > 0 BY <1>a DEF RunSound
  <2>2. (runs[r].resumed /\ Go(r, "delete")) \/ Go(r, "release") => RunsSound'
    BY <2>1, <2>a, GoSound DEF Place
  <2>3. End(r) => RunsSound' BY <1>a, <2>1, EndSound
  <2>4. StoresSound' BY <1>14 DEF Answer, Sound, StoresSound
  <2> QED BY <2>1, <2>2, <2>3, <2>4 DEF Sound
<1>17. ASSUME NEW c \in Sessions, DeleteSession(c) PROVE Sound'
  BY <1>17 DEF DeleteSession, Sound, StoresSound, RunsSound
<1>18. ASSUME NEW dsl \in Canvases, Edit(dsl) PROVE Sound'
  BY <1>18 DEF Edit, Sound, StoresSound, RunsSound
<1>19. CASE Tick
  <2>1. \A n \in 0 .. LeaseTicks : Down(n) \in 0 .. LeaseTicks BY DEF Down
  <2>2. \A c \in Sessions : /\ checkpoints'[c] = [checkpoints[c] EXCEPT !.left = Down(@)]
                            /\ checkpoints[c] \in Checkpoint
    BY <1>19, <1>a DEF Tick
  <2>3. \A c \in Sessions : /\ checkpoints'[c] \in Checkpoint
                            /\ checkpoints'[c].token = checkpoints[c].token
    BY <2>1, <2>2, CheckpointUpdates
  <2>4. checkpoints' \in [Sessions -> Checkpoint] BY <1>19, <2>3 DEF Tick
  <2>5. StoresSound' BY <1>19, <2>3, <2>4 DEF Tick, Sound, StoresSound
  <2>6. ASSUME NEW r \in Runs PROVE RunSound(runs'[r], nextToken')
    <3>1. /\ runs'[r] = [runs[r] EXCEPT !.left = Down(@)] /\ nextToken' = nextToken
          /\ RunSound(runs[r], nextToken)
      BY <1>19, <1>a DEF Tick
    <3> QED BY <2>1, <3>1 DEF RunSound, Run
  <2>7. RunsSound' BY <1>19, <1>a, <2>6 DEF Tick, RunsSound, RunSound
  <2> QED BY <2>5, <2>7 DEF Sound
<1>20. CASE Restart
  <2>1. \A c \in Sessions : /\ checkpoints'[c] = Unclaimed(checkpoints[c])
                            /\ checkpoints[c] \in Checkpoint
    BY <1>20, <1>a DEF Restart
  <2>2. \A c \in Sessions : /\ checkpoints'[c] \in Checkpoint
                            /\ checkpoints'[c].token = checkpoints[c].token
    BY <2>1, CheckpointUpdates
  <2>3. checkpoints' \in [Sessions -> Checkpoint] BY <1>20, <2>2 DEF Restart
  <2>4. StoresSound' BY <1>20, <2>2, <2>3 DEF Restart, Sound, StoresSound
  <2>5. RunSound(Idle, nextToken') BY <1>20, <1>a DEF Restart, RunSound, Idle, Run, Place
  <2>6. RunsSound' BY <1>20, <2>5 DEF Restart, RunsSound, RunSound
  <2> QED BY <2>4, <2>6 DEF Sound
<1>21. CASE UNCHANGED vars
  BY <1>21 DEF vars, Sound, StoresSound, RunsSound
<1> QED
  BY <1>1, <1>2, <1>3, <1>4, <1>5, <1>6, <1>7, <1>9, <1>10, <1>11, <1>12, <1>13,
     <1>14, <1>17, <1>18, <1>19, <1>20, <1>21
     DEF Next, Request, Advance

\* Every variable of AgentSessions always has its type.
THEOREM TypeCorrect == Spec => []TypeOK
<1>1. Sound => TypeOK
  BY DEF Sound, StoresSound, RunsSound, RunSound, TypeOK
<1> QED BY <1>1, SoundInit, SoundStep, PTL DEF Spec

-----------------------------------------------------------------------------
(* Leases *)

\* What a run has claimed stays as it is, if it resumes a checkpoint after the
\* step.
Follows(s) ==
    Resuming(s)' =>
        /\ Resuming(s)
        /\ runs'[s].session = runs[s].session
        /\ runs'[s].token = runs[s].token
        /\ runs'[s].left = runs[s].left

LEMMA EndFollows == ASSUME Sound, NEW r \in Runs, End(r) PROVE \A s \in Runs : Follows(s)
BY DEF End, Idle, Follows, Resuming, Sound, RunsSound

LEMMA GoFollows ==
    ASSUME Sound, NEW r \in Runs, NEW at, Go(r, at),
           runs[r].at \notin {"idle", "tell", "cleanup"}
    PROVE  \A s \in Runs : Follows(s)
<1> SUFFICES ASSUME NEW s \in Runs PROVE Follows(s)
  OBVIOUS
<1>1. runs[s] \in Run /\ (runs[s].resumed => runs[s].at # "claim")
  BY DEF Sound, RunsSound, RunSound
<1>2. runs'[s] \in {runs[s], [runs[s] EXCEPT !.at = at]}
  BY DEF Go, Sound, RunsSound
<1>3. CASE s # r
  BY <1>3 DEF Go, Follows, Resuming, Sound, RunsSound
<1>4. CASE s = r
  <2>1. runs'[r] = [runs[r] EXCEPT !.at = at] BY DEF Go, Sound, RunsSound
  <2> QED BY <1>1, <1>4, <2>1 DEF Follows, Resuming, Run, Place
<1> QED BY <1>3, <1>4

\* A step that follows and leaves the checkpoints alone keeps the leases.
LEMMA LeaseFollows ==
    ASSUME Sound, LeaseKnown, \A s \in Runs : Follows(s), UNCHANGED checkpoints
    PROVE  LeaseKnown'
BY DEF LeaseKnown, Follows

\* So does one that only touches a checkpoint which no run with time left has.
LEMMA LeaseElsewhere ==
    ASSUME Sound, LeaseKnown, \A s \in Runs : Follows(s),
           NEW c \in Sessions, NEW k, checkpoints' = [checkpoints EXCEPT ![c] = k],
           \A s \in Runs : Resuming(s)' /\ runs[s].left > 0 /\ runs[s].session = c =>
              checkpoints[c].claim # s
    PROVE  LeaseKnown'
<1> SUFFICES ASSUME NEW s \in Runs, Resuming(s)', runs'[s].left > 0
             PROVE  LET q == checkpoints'[runs'[s].session]
                    IN  q.claim = s /\ q.token = runs'[s].token /\ q.left = runs'[s].left
  BY DEF LeaseKnown, Resuming
<1>1. /\ Resuming(s) /\ runs'[s].session = runs[s].session
      /\ runs'[s].token = runs[s].token /\ runs'[s].left = runs[s].left
  BY DEF Follows
<1>2. checkpoints[runs[s].session].claim = s BY <1>1 DEF LeaseKnown
<1>3. runs[s].session # c BY <1>1, <1>2
<1>4. checkpoints'[runs[s].session] = checkpoints[runs[s].session]
  BY <1>3 DEF Sound, StoresSound
<1> QED BY <1>1, <1>4 DEF LeaseKnown

LEMMA TellFollows ==
    ASSUME Sound, NEW r \in Runs, runs' = [runs EXCEPT ![r].at = "tell", ![r].token = nextToken]
    PROVE  \A s \in Runs : Follows(s)
<1>1. \A s \in Runs : s # r => runs'[s] = runs[s]
  BY DEF Sound, RunsSound
<1>2. runs'[r].at = "tell" BY DEF Sound, RunsSound, Run
<1> QED BY <1>1, <1>2 DEF Follows, Resuming

LEMMA LeaseInit == Init => LeaseKnown
BY DEF Init, LeaseKnown, Resuming, Idle

LEMMA LeaseStep == Sound /\ LeaseKnown /\ [Next]_vars => LeaseKnown'
<1> SUFFICES ASSUME Sound, LeaseKnown, [Next]_vars PROVE LeaseKnown'
  OBVIOUS
<1>a. \A s \in Runs : runs[s] \in Run /\ RunSound(runs[s], nextToken)
  BY DEF Sound, RunsSound
<1>1. ASSUME NEW r \in Runs, NEW c \in Sessions, NEW stream \in {"no", "asked"},
             NEW token \in {0} \cup told[c], Start(r, c, stream, token)
      PROVE  LeaseKnown'
  <2>1. \A s \in Runs : Follows(s)
    BY <1>1 DEF Start, Follows, Resuming, Sound, RunsSound
  <2> QED BY <1>1, <2>1, LeaseFollows DEF Start
<1>2. ASSUME NEW r \in Runs,
             Fresh(r) \/ NoModel(r) \/ Drop(r) \/ Fail(r) \/ Pause(r) \/ Complete(r)
      PROVE  LeaseKnown'
  <2>1. /\ runs[r].at \in {"claim", "preflight", "run"} /\ UNCHANGED checkpoints
        /\ End(r) \/ \E at \in Place : Go(r, at)
    BY <1>2 DEF Fresh, NoModel, Drop, Fail, Pause, Complete, Place
  <2>2. \A s \in Runs : Follows(s) BY <2>1, EndFollows, GoFollows
  <2> QED BY <2>1, <2>2, LeaseFollows
<1>3. ASSUME NEW r \in Runs, NEW ok \in BOOLEAN, Answer(r, ok) PROVE LeaseKnown'
  <2>1. /\ runs[r].at = "answer" /\ UNCHANGED checkpoints
        /\ End(r) \/ Go(r, "delete") \/ Go(r, "release")
    BY <1>3 DEF Answer
  <2>2. \A s \in Runs : Follows(s) BY <2>1, EndFollows, GoFollows
  <2> QED BY <2>1, <2>2, LeaseFollows
<1>4. ASSUME NEW r \in Runs, Preflight(r) PROVE LeaseKnown'
  <2>1. CASE runs[r].stream = "asked"
    <3>1. \A s \in Runs :
            runs'[s] = IF s = r THEN [runs[s] EXCEPT !.at = "run", !.stream = "going"]
                       ELSE IF s = active THEN [runs[s] EXCEPT !.stream = "stopped"]
                       ELSE runs[s]
      BY <1>4, <2>1 DEF Preflight
    <3>2. ASSUME NEW s \in Runs PROVE Follows(s)
      <4>1. CASE s = r
        <5>1. runs'[s] = [runs[s] EXCEPT !.at = "run", !.stream = "going"]
          BY <3>1, <4>1
        <5> QED BY <1>4, <1>a, <4>1, <5>1 DEF Preflight, Follows, Resuming, Run
      <4>2. CASE s # r
        <5>1. runs'[s] \in {runs[s], [runs[s] EXCEPT !.stream = "stopped"]}
          BY <3>1, <4>2
        <5> QED BY <1>a, <5>1 DEF Follows, Resuming, Run
      <4> QED BY <4>1, <4>2
    <3> QED BY <1>4, <3>2, LeaseFollows DEF Preflight
  <2>2. CASE runs[r].stream # "asked"
    <3>1. Go(r, "run") /\ runs[r].at = "preflight" /\ UNCHANGED checkpoints
      BY <1>4, <2>2 DEF Preflight
    <3> QED BY <3>1, GoFollows, LeaseFollows
  <2> QED BY <2>1, <2>2
<1>5. ASSUME NEW r \in Runs, NEW ok \in BOOLEAN, Claim(r, ok) PROVE LeaseKnown'
  <2> DEFINE c == runs[r].session
  <2>1. CASE End(r) /\ UNCHANGED checkpoints
    BY <2>1, EndFollows, LeaseFollows
  <2>2. CASE ~(End(r) /\ UNCHANGED checkpoints)
    <3> PICK at \in {"preflight", "release"} :
          /\ checkpoints' = [checkpoints EXCEPT ![c].claim = r, ![c].left = LeaseTicks]
          /\ runs' = [runs EXCEPT ![r].at = at, ![r].token = checkpoints[c].token,
                                  ![r].resumed = TRUE, ![r].left = LeaseTicks]
      BY <1>5, <2>2 DEF Claim
    <3>1. ~Busy(c) /\ runs[r].at = "claim" BY <1>5, <2>2 DEF Claim
    <3>2. c \in Sessions /\ checkpoints \in [Sessions -> Checkpoint]
            /\ runs \in [Runs -> Run] /\ checkpoints[c] \in Checkpoint
      BY <1>a, <3>1 DEF RunSound, Sound, RunsSound, StoresSound
    <3>3. /\ checkpoints'[c].claim = r /\ checkpoints'[c].left = LeaseTicks
          /\ checkpoints'[c].token = checkpoints[c].token
          /\ \A d \in Sessions : d # c => checkpoints'[d] = checkpoints[d]
      BY <3>2 DEF Checkpoint
    <3>4. /\ runs'[r].session = c /\ runs'[r].left = LeaseTicks
          /\ runs'[r].token = checkpoints[c].token
          /\ \A s \in Runs : s # r => runs'[s] = runs[s]
      BY <3>2 DEF Run
    <3>5. ASSUME NEW s \in Runs, Resuming(s)', runs'[s].left > 0, s # r
          PROVE  /\ runs[s].session # c /\ runs'[s] = runs[s] /\ Resuming(s)
                 /\ runs[s].session \in Sessions
      <4>1. runs'[s] = runs[s] /\ Resuming(s) BY <3>4, <3>5 DEF Resuming
      <4>2. runs[s].session = c => Busy(c)
        BY <3>5, <4>1 DEF LeaseKnown, Busy
      <4>3. runs[s].session \in Sessions BY <1>a, <4>1 DEF RunSound, Resuming
      <4> QED BY <3>1, <4>1, <4>2, <4>3
    <3> HIDE DEF c
    <3>6. ASSUME NEW s \in Runs, Resuming(s)', runs'[s].left > 0
          PROVE  LET k == checkpoints'[runs'[s].session]
                 IN  k.claim = s /\ k.token = runs'[s].token /\ k.left = runs'[s].left
      <4>1. CASE s = r BY <3>3, <3>4, <4>1
      <4>2. CASE s # r
        <5>1. /\ runs[s].session # c /\ runs'[s] = runs[s] /\ Resuming(s)
              /\ runs[s].session \in Sessions
          BY <3>5, <3>6, <4>2
        <5>2. checkpoints'[runs[s].session] = checkpoints[runs[s].session]
          BY <3>3, <5>1
        <5>3. /\ checkpoints[runs[s].session].claim = s
              /\ checkpoints[runs[s].session].token = runs[s].token
              /\ checkpoints[runs[s].session].left = runs[s].left
          BY <3>6, <5>1 DEF LeaseKnown
        <5> QED BY <5>1, <5>2, <5>3
      <4> QED BY <4>1, <4>2
    <3> QED BY <3>6 DEF LeaseKnown, Resuming
  <2> QED BY <2>1, <2>2
<1>6. ASSUME NEW r \in Runs, NEW ok \in BOOLEAN, SaveWaiting(r, ok) PROVE LeaseKnown'
  <2>1. CASE End(r) /\ UNCHANGED checkpoints
    BY <2>1, EndFollows, LeaseFollows
  <2>2. CASE ~(End(r) /\ UNCHANGED <<checkpoints, nextToken>>)
    <3>1. /\ runs[r].at = "save" /\ ~Present(runs[r].session)
          /\ checkpoints' = [checkpoints EXCEPT ![runs[r].session] = Saved(r)]
          /\ runs' = [runs EXCEPT ![r].at = "tell", ![r].token = nextToken]
      BY <1>6, <2>2 DEF SaveWaiting
    <3>2. \A s \in Runs : Follows(s) BY <3>1, TellFollows
    <3>3. runs[r].session \in Sessions BY <1>a, <3>1 DEF RunSound
    <3>4. \A s \in Runs : Resuming(s)' /\ runs[s].left > 0
             /\ runs[s].session = runs[r].session => FALSE
      BY <1>a, <3>1, <3>2 DEF LeaseKnown, Present, Follows, RunSound, Resuming
    <3> QED BY <3>1, <3>2, <3>3, <3>4, LeaseElsewhere
  <2> QED BY <2>1, <2>2
<1>7. ASSUME NEW r \in Runs, NEW ok \in BOOLEAN, ReplaceClaimed(r, ok) PROVE LeaseKnown'
  <2>0. runs[r].at = "save" BY <1>7 DEF ReplaceClaimed
  <2>1. CASE Go(r, "release") /\ UNCHANGED checkpoints
    BY <2>0, <2>1, GoFollows, LeaseFollows
  <2>2. CASE ~(Go(r, "release") /\ UNCHANGED <<checkpoints, nextToken, consumed>>)
    <3>1. /\ Claims(r)
          /\ checkpoints' = [checkpoints EXCEPT ![runs[r].session] = Saved(r)]
          /\ runs' = [runs EXCEPT ![r].at = "tell", ![r].token = nextToken]
      BY <1>7, <2>2 DEF ReplaceClaimed
    <3>2. \A s \in Runs : Follows(s) BY <3>1, TellFollows
    <3>3. runs[r].session \in Sessions BY <1>a, <2>0 DEF RunSound
    <3>4. ~Resuming(r)' BY <1>a, <3>1 DEF Resuming, Run, Sound, RunsSound
    <3>5. checkpoints[runs[r].session].claim = r BY <3>1 DEF Claims
    <3>6. \A s \in Runs : Resuming(s)' /\ runs[s].left > 0
             /\ runs[s].session = runs[r].session
             => checkpoints[runs[r].session].claim # s
      BY <3>4, <3>5
    <3> QED BY <3>1, <3>2, <3>3, <3>6, LeaseElsewhere
  <2> QED BY <2>1, <2>2
<1>8. ASSUME NEW r \in Runs, NEW ok \in BOOLEAN, Tell(r, ok) PROVE LeaseKnown'
  <2>1. CASE End(r)
    BY <1>8, <2>1, EndFollows, LeaseFollows DEF Tell
  <2>2. CASE ~End(r)
    <3>1. runs' = [runs EXCEPT ![r].at = "cleanup"] /\ UNCHANGED checkpoints
      BY <1>8, <2>2 DEF Tell, Go
    <3>2. \A s \in Runs : Follows(s)
      BY <1>a, <3>1 DEF Follows, Resuming, Run, Sound, RunsSound
    <3> QED BY <3>1, <3>2, LeaseFollows
  <2> QED BY <2>1, <2>2
<1>9. ASSUME NEW r \in Runs, NEW ok \in BOOLEAN,
             Cleanup(r, ok) \/ DeleteClaimed(r, ok) \/ Release(r, ok)
      PROVE  LeaseKnown'
  <2>1. End(r) /\ runs[r].at # "idle" BY <1>9 DEF Cleanup, DeleteClaimed, Release
  <2>2. \A s \in Runs : Follows(s) BY <2>1, EndFollows
  <2>3. CASE UNCHANGED checkpoints BY <2>2, <2>3, LeaseFollows
  <2>4. CASE ~UNCHANGED checkpoints
    <3>1. /\ checkpoints[runs[r].session].claim \in {None, r}
          /\ \/ checkpoints' = [checkpoints EXCEPT ![runs[r].session] = NoCheckpoint]
             \/ checkpoints' = [checkpoints EXCEPT ![runs[r].session] =
                                  Unclaimed(checkpoints[runs[r].session])]
      BY <1>9, <2>4 DEF Cleanup, Untouched, DeleteClaimed, Release, Claims
    <3>2. runs[r].session \in Sessions BY <1>a, <2>1 DEF RunSound
    <3>3. ~Resuming(r)' BY <2>1 DEF End, Resuming, Idle, Sound, RunsSound
    <3>4. \A s \in Runs : Resuming(s)' /\ runs[s].left > 0
             /\ runs[s].session = runs[r].session
             => checkpoints[runs[r].session].claim # s
      BY <3>1, <3>3
    <3> QED BY <2>2, <3>1, <3>2, <3>4, LeaseElsewhere
  <2> QED BY <2>3, <2>4
<1>10. CASE \/ \E c \in Sessions : DeleteSession(c)
            \/ \E dsl \in Canvases : Edit(dsl)
            \/ UNCHANGED vars
  BY <1>10 DEF DeleteSession, Edit, vars, LeaseKnown, Resuming
<1>11. CASE Tick
  <2> SUFFICES ASSUME NEW s \in Runs, Resuming(s)', runs'[s].left > 0
               PROVE  LET k == checkpoints'[runs'[s].session]
                      IN  k.claim = s /\ k.token = runs'[s].token /\ k.left = runs'[s].left
    BY DEF LeaseKnown, Resuming
  <2> DEFINE c == runs[s].session
  <2>1. runs'[s] = [runs[s] EXCEPT !.left = Down(runs[s].left)] BY <1>11 DEF Tick
  <2>2. /\ runs'[s].left = Down(runs[s].left) /\ runs'[s].session = c
        /\ runs'[s].token = runs[s].token /\ Resuming(s)
    BY <1>a, <2>1 DEF Run, Resuming
  <2>3. c \in Sessions BY <1>a, <2>2 DEF RunSound, Resuming
  <2>4. runs[s].left > 0 BY <1>a, <2>2 DEF Down, Run
  <2>5. /\ checkpoints[c].claim = s /\ checkpoints[c].token = runs[s].token
        /\ checkpoints[c].left = runs[s].left
    BY <2>2, <2>4 DEF LeaseKnown
  <2>6. /\ checkpoints'[c] = [checkpoints[c] EXCEPT !.left = Down(checkpoints[c].left)]
        /\ checkpoints[c] \in Checkpoint
    BY <1>11, <2>3 DEF Tick, Sound, StoresSound
  <2>7. /\ checkpoints'[c].claim = s /\ checkpoints'[c].token = runs[s].token
        /\ checkpoints'[c].left = Down(checkpoints[c].left)
    BY <2>5, <2>6 DEF Checkpoint
  <2> QED BY <2>2, <2>5, <2>7
<1>12. CASE Restart
  BY <1>12 DEF Restart, LeaseKnown, Resuming, Idle
<1> QED
  BY <1>1, <1>2, <1>3, <1>4, <1>5, <1>6, <1>7, <1>8, <1>9, <1>10, <1>11, <1>12
     DEF Next, Request, Advance

\* While a run's lease lasts, no cleanup, claim or late finish of another
\* request replaces, releases or deletes the checkpoint that it resumes.
THEOREM LeasesHonoured == Spec => []LeaseHonoured
<1>1. LeaseKnown => LeaseHonoured
  BY DEF LeaseKnown, LeaseHonoured
<1> QED BY <1>1, SoundInit, SoundStep, LeaseInit, LeaseStep, PTL DEF Spec

-----------------------------------------------------------------------------
(* Streams *)

\* Moving or ending one request starts no stream and unregisters no other.
LEMMA StreamFollows ==
    ASSUME Sound, OneStream, NEW r \in Runs,
           \/ End(r)
           \/ /\ UNCHANGED active
              /\ \A s \in Runs : s = r \/ runs'[s] = runs[s]
              /\ runs'[r].stream \in {"no", "asked", runs[r].stream}
    PROVE  OneStream'
BY DEF OneStream, End, Idle, Sound, RunsSound

LEMMA GoStream == ASSUME Sound, OneStream, NEW r \in Runs, NEW at, Go(r, at) PROVE OneStream'
BY DEF OneStream, Go, Sound, RunsSound, RunSound, Run

LEMMA StreamStep == Sound /\ OneStream /\ [Next]_vars => OneStream'
<1> SUFFICES ASSUME Sound, OneStream, [Next]_vars PROVE OneStream'
  OBVIOUS
<1>a. /\ runs \in [Runs -> Run] /\ \A s \in Runs : runs[s] \in Run
  BY DEF Sound, RunsSound, RunSound
<1>1. ASSUME NEW r \in Runs, NEW c \in Sessions, NEW stream \in {"no", "asked"},
             NEW token \in {0} \cup told[c], Start(r, c, stream, token)
      PROVE  OneStream'
  BY <1>a, <1>1, StreamFollows DEF Start
<1>2. ASSUME NEW r \in Runs,
             \/ Fresh(r) \/ NoModel(r) \/ Drop(r) \/ Fail(r) \/ Pause(r) \/ Complete(r)
             \/ \E ok \in BOOLEAN :
                  \/ Answer(r, ok) \/ Tell(r, ok) \/ Cleanup(r, ok)
                  \/ DeleteClaimed(r, ok) \/ Release(r, ok)
      PROVE  OneStream'
  <2>1. End(r) \/ \E at \in Place : Go(r, at)
    BY <1>2 DEF Fresh, NoModel, Drop, Fail, Pause, Complete, Answer, Tell, Cleanup,
                DeleteClaimed, Release, Place
  <2> QED BY <2>1, StreamFollows, GoStream
<1>3. ASSUME NEW r \in Runs, Preflight(r) PROVE OneStream'
  <2>1. CASE runs[r].stream = "asked"
    <3>1. /\ active' = r
          /\ \A s \in Runs :
               runs'[s] = IF s = r THEN [runs[s] EXCEPT !.at = "run", !.stream = "going"]
                          ELSE IF s = active THEN [runs[s] EXCEPT !.stream = "stopped"]
                          ELSE runs[s]
      BY <1>3, <2>1 DEF Preflight
    <3>2. ASSUME NEW s \in Runs, s # r PROVE runs'[s].stream # "going"
      <4>1. CASE s = active
        BY <1>a, <3>1, <3>2, <4>1 DEF Run
      <4>2. CASE s # active
        BY <3>1, <3>2, <4>2 DEF OneStream
      <4> QED BY <4>1, <4>2
    <3> QED BY <3>1, <3>2 DEF OneStream
  <2>2. CASE runs[r].stream # "asked"
    BY <1>3, <2>2, GoStream DEF Preflight
  <2> QED BY <2>1, <2>2
<1>4. ASSUME NEW r \in Runs, NEW ok \in BOOLEAN,
             Claim(r, ok) \/ SaveWaiting(r, ok) \/ ReplaceClaimed(r, ok)
      PROVE  OneStream'
  <2>1. CASE End(r) \/ Go(r, "release") BY <2>1, StreamFollows, GoStream
  <2>2. CASE ~(End(r) \/ Go(r, "release"))
    <3>1. \/ /\ UNCHANGED active
             /\ \E at \in Place : runs' = [runs EXCEPT
                  ![r].at = at, ![r].token = checkpoints[runs[r].session].token,
                  ![r].resumed = TRUE, ![r].left = LeaseTicks]
          \/ /\ UNCHANGED active
             /\ runs' = [runs EXCEPT ![r].at = "tell", ![r].token = nextToken]
      BY <1>4, <2>2 DEF Claim, SaveWaiting, ReplaceClaimed, Place
    <3>2. /\ UNCHANGED active /\ runs'[r].stream = runs[r].stream
          /\ \A s \in Runs : s = r \/ runs'[s] = runs[s]
      <4>1. ASSUME NEW at \in Place, NEW token, NEW resumed, NEW left,
                   \/ runs' = [runs EXCEPT ![r].at = at, ![r].token = token,
                                           ![r].resumed = resumed, ![r].left = left]
                   \/ runs' = [runs EXCEPT ![r].at = at, ![r].token = token]
            PROVE  /\ runs'[r].stream = runs[r].stream
                   /\ \A s \in Runs : s = r \/ runs'[s] = runs[s]
        BY <1>a, <4>1 DEF Run
      <4>2. "tell" \in Place BY DEF Place
      <4> QED BY <3>1, <4>1, <4>2
    <3> QED BY <3>2, StreamFollows
  <2> QED BY <2>1, <2>2
<1>5. CASE \/ \E c \in Sessions : DeleteSession(c)
           \/ \E dsl \in Canvases : Edit(dsl)
           \/ UNCHANGED vars
  BY <1>5 DEF DeleteSession, Edit, vars, OneStream
<1>6. CASE Tick
  BY <1>6, <1>a DEF Tick, OneStream, Run
<1>7. CASE Restart
  BY <1>7 DEF Restart, OneStream, Idle
<1> QED
  BY <1>1, <1>2, <1>3, <1>4, <1>5, <1>6, <1>7 DEF Next, Request, Advance

\* Of all streaming runs at most one was not told to stop, the registered one.
THEOREM StreamsReplaced == Spec => []OneStream
<1>1. Init => OneStream BY DEF Init, OneStream, Idle
<1> QED BY <1>1, SoundInit, SoundStep, StreamStep, PTL DEF Spec

-----------------------------------------------------------------------------
(* Resume tokens *)

\* The run claims and saves nothing in this step.
Quiet(s) ==
    /\ Resuming(s)' => /\ Resuming(s)
                       /\ runs'[s].session = runs[s].session
                       /\ runs'[s].token = runs[s].token
    /\ Untelling(s)' => /\ Untelling(s)
                        /\ runs'[s].session = runs[s].session
                        /\ runs'[s].token = runs[s].token
                        /\ runs'[s].at = "tell" => runs[s].at = "tell"

LEMMA PromisesInit == Init => Promises
BY DEF Init, Promises, ClaimFits, TellsPending, UntoldOwned, PromisesKept, Resuming,
       Untelling, Idle

LEMMA EndQuiet == ASSUME Sound, NEW r \in Runs, End(r) PROVE \A s \in Runs : Quiet(s)
BY DEF End, Idle, Quiet, Resuming, Untelling, Sound, RunsSound

LEMMA GoQuiet ==
    ASSUME Sound, NEW r \in Runs, NEW at, Go(r, at),
           \/ at \notin {"tell", "cleanup"} /\ runs[r].at \notin {"idle", "tell", "cleanup"}
           \/ at = "cleanup" /\ runs[r].at = "tell"
    PROVE  \A s \in Runs : Quiet(s)
<1> SUFFICES ASSUME NEW s \in Runs PROVE Quiet(s)
  OBVIOUS
<1>1. runs[s] \in Run /\ (runs[s].resumed => runs[s].at # "claim")
  BY DEF Sound, RunsSound, RunSound
<1>2. CASE s # r
  BY <1>2 DEF Go, Quiet, Resuming, Untelling, Sound, RunsSound
<1>3. CASE s = r
  <2>1. runs'[r] = [runs[r] EXCEPT !.at = at] BY DEF Go, Sound, RunsSound
  <2> QED BY <1>1, <1>3, <2>1 DEF Quiet, Resuming, Untelling, Run, Place
<1> QED BY <1>2, <1>3

\* A quiet step that leaves the tokens where they are keeps the promises.
LEMMA PromisesQuiet ==
    ASSUME Sound, Promises, UNCHANGED <<told, consumed>>, \A s \in Runs : Quiet(s),
           \A c \in Sessions : /\ checkpoints'[c].token = checkpoints[c].token
                               /\ checkpoints'[c].claim \in {None, checkpoints[c].claim}
    PROVE  Promises'
<1>a. \A s \in Runs : (Resuming(s) \/ Untelling(s)) => runs[s].session \in Sessions
  BY DEF Sound, RunsSound, RunSound, Resuming, Untelling
<1>1. ClaimFits'
  BY <1>a DEF Promises, ClaimFits, Quiet, Resuming
<1>2. TellsPending'
  BY <1>a DEF Promises, TellsPending, Quiet, Untelling
<1>3. UntoldOwned'
  BY DEF Promises, UntoldOwned, Quiet
<1>4. PromisesKept'
  BY DEF Promises, PromisesKept
<1> QED BY <1>1, <1>2, <1>3, <1>4 DEF Promises

\* A checkpoint may get a new token if its old one was none or is used up.
LEMMA PromisesSaved ==
    ASSUME Sound, Promises, NEW r \in Runs, runs[r].session \in Sessions,
           checkpoints' = [checkpoints EXCEPT ![runs[r].session] = Saved(r)],
           runs' = [runs EXCEPT ![r].at = "tell", ![r].token = nextToken],
           UNCHANGED told, consumed \subseteq consumed',
           checkpoints[runs[r].session].token \in {0} \cup consumed'
    PROVE  Promises'
<1> DEFINE c == runs[r].session
<1>a. /\ runs \in [Runs -> Run] /\ \A s \in Runs : RunSound(runs[s], nextToken)
      /\ checkpoints \in [Sessions -> Checkpoint] /\ nextToken \in Nat
  BY DEF Sound, RunsSound, StoresSound
<1>b. /\ runs'[r].at = "tell" /\ runs'[r].token = nextToken /\ runs'[r].session = c
      /\ \A s \in Runs : s # r => runs'[s] = runs[s]
  BY <1>a DEF Run
<1>c. /\ checkpoints'[c].token = nextToken /\ checkpoints'[c].claim = None
      /\ \A d \in Sessions : d # c => checkpoints'[d] = checkpoints[d]
  BY <1>a DEF Saved
<1>d. \A s \in Runs : Resuming(s) \/ Untelling(s) =>
        /\ runs[s].session \in Sessions /\ runs[s].token < nextToken
        /\ runs[s].token \in Nat /\ runs[s].token > 0
  BY <1>a DEF RunSound, Resuming, Untelling, Run
<1>e. \A d \in Sessions : \A token \in told[d] :
        token \in Nat /\ token > 0 /\ token < nextToken
  BY DEF Sound, StoresSound
<1> HIDE DEF c
<1>1. ClaimFits'
  <2> SUFFICES ASSUME NEW s \in Runs, Resuming(s)', checkpoints'[runs'[s].session].claim = s
               PROVE  checkpoints'[runs'[s].session].token = runs'[s].token
    BY DEF ClaimFits, Resuming
  <2>1. s # r BY <1>b DEF Resuming
  <2>2. runs'[s] = runs[s] /\ Resuming(s) BY <1>b, <2>1 DEF Resuming
  <2>3. runs[s].session # c BY <1>c, <2>2
  <2>4. checkpoints'[runs[s].session] = checkpoints[runs[s].session]
    BY <1>c, <1>d, <2>2, <2>3
  <2> QED BY <2>2, <2>4 DEF Promises, ClaimFits
<1>2. TellsPending'
  <2> SUFFICES ASSUME NEW s \in Runs, runs'[s].at = "tell"
               PROVE  runs'[s].token \in
                        consumed' \cup {checkpoints'[runs'[s].session].token}
    BY DEF TellsPending
  <2>1. CASE s = r BY <1>b, <1>c, <2>1
  <2>2. CASE s # r
    <3>1. runs'[s] = runs[s] /\ Untelling(s) BY <1>b, <2>2 DEF Untelling
    <3>2. runs[s].token \in consumed \cup {checkpoints[runs[s].session].token}
      BY <3>1 DEF Promises, TellsPending
    <3>3. CASE runs[s].session = c
      <4>1. checkpoints[runs[s].session].token \in {0} \cup consumed'
        BY <3>3 DEF c
      <4>2. runs[s].token # 0 BY <1>d, <3>1
      <4>3. runs[s].token \in consumed' BY <3>2, <4>1, <4>2
      <4> QED BY <3>1, <4>3
    <3>4. CASE runs[s].session # c
      BY <1>c, <1>d, <3>1, <3>2, <3>4
    <3> QED BY <3>3, <3>4
  <2> QED BY <2>1, <2>2
<1>3. UntoldOwned'
  <2>1. \A s \in Runs : s # r /\ Untelling(s)' => runs'[s] = runs[s] /\ Untelling(s)
    BY <1>b DEF Untelling
  <2>2. \A s \in Runs : Untelling(s)' => \A d \in Sessions : runs'[s].token \notin told'[d]
    <3>1. \A d \in Sessions : nextToken \notin told[d] BY <1>a, <1>e
    <3>2. ASSUME NEW s \in Runs, Untelling(s)', NEW d \in Sessions
          PROVE  runs'[s].token \notin told[d]
      <4>1. CASE s = r BY <1>b, <3>1, <4>1
      <4>2. CASE s # r BY <2>1, <3>2, <4>2 DEF Promises, UntoldOwned
      <4> QED BY <4>1, <4>2
    <3> QED BY <3>2
  <2>3. \A s, t \in Runs : Untelling(s)' /\ Untelling(t)' /\ s # t =>
          runs'[s].token # runs'[t].token
    BY <1>a, <1>b, <1>d, <2>1 DEF Promises, UntoldOwned
  <2> QED BY <2>2, <2>3 DEF UntoldOwned, Untelling
<1>4. PromisesKept'
  <2> SUFFICES ASSUME NEW d \in Sessions, NEW token \in told[d] \ consumed'
               PROVE  checkpoints'[d].token = token
    BY DEF PromisesKept
  <2>1. checkpoints[d].token = token BY DEF Promises, PromisesKept
  <2>2. d # c BY <1>e, <2>1 DEF c
  <2> QED BY <1>c, <2>1, <2>2
<1> QED BY <1>1, <1>2, <1>3, <1>4 DEF Promises

\* A checkpoint may go if no client knows its token or it is used up.
LEMMA PromisesDropped ==
    ASSUME Sound, Promises, NEW r \in Runs, End(r), runs[r].session \in Sessions,
           checkpoints' = [checkpoints EXCEPT ![runs[r].session] = NoCheckpoint],
           UNCHANGED told, consumed \subseteq consumed',
           \/ checkpoints[runs[r].session].token \in consumed'
           \/ Untelling(r) /\ runs[r].token = checkpoints[runs[r].session].token
    PROVE  Promises'
<1> DEFINE c == runs[r].session
<1>a. \A s \in Runs : Quiet(s) BY EndQuiet
<1>b. \A s \in Runs : (Resuming(s) \/ Untelling(s)) => runs[s].session \in Sessions
  BY DEF Sound, RunsSound, RunSound, Resuming, Untelling
<1>c. /\ checkpoints'[c].claim = None
      /\ \A d \in Sessions : d # c => checkpoints'[d] = checkpoints[d]
  BY DEF Sound, StoresSound, NoCheckpoint
<1>d. \A s \in Runs : Untelling(s)' => s # r
  BY DEF End, Idle, Untelling, Sound, RunsSound
<1> HIDE DEF c
<1>1. ClaimFits'
  BY <1>a, <1>b, <1>c DEF Promises, ClaimFits, Quiet, Resuming
<1>2. TellsPending'
  <2> SUFFICES ASSUME NEW s \in Runs, runs'[s].at = "tell"
               PROVE  runs'[s].token \in
                        consumed' \cup {checkpoints'[runs'[s].session].token}
    BY DEF TellsPending
  <2>1. /\ runs[s].at = "tell" /\ Untelling(s) /\ s # r
        /\ runs'[s].session = runs[s].session /\ runs'[s].token = runs[s].token
    BY <1>a, <1>d DEF Quiet, Untelling
  <2>2. runs[s].token \in consumed \cup {checkpoints[runs[s].session].token}
    BY <2>1 DEF Promises, TellsPending
  <2>3. CASE runs[s].session = c
    BY <2>1, <2>2, <2>3 DEF c, Promises, UntoldOwned
  <2>4. CASE runs[s].session # c
    BY <1>b, <1>c, <2>1, <2>2, <2>4
  <2> QED BY <2>3, <2>4
<1>3. UntoldOwned'
  BY <1>a DEF Promises, UntoldOwned, Quiet
<1>4. PromisesKept'
  <2> SUFFICES ASSUME NEW d \in Sessions, NEW token \in told[d] \ consumed'
               PROVE  checkpoints'[d].token = token
    BY DEF PromisesKept
  <2>1. checkpoints[d].token = token BY DEF Promises, PromisesKept
  <2>2. d # c BY <2>1 DEF c, Promises, UntoldOwned
  <2> QED BY <1>c, <2>1, <2>2
<1> QED BY <1>1, <1>2, <1>3, <1>4 DEF Promises

LEMMA PromisesStep == Sound /\ Promises /\ [Next]_vars => Promises'
<1> SUFFICES ASSUME Sound, Promises, [Next]_vars PROVE Promises'
  OBVIOUS
<1>a. /\ \A s \in Runs : runs[s] \in Run /\ RunSound(runs[s], nextToken)
      /\ runs \in [Runs -> Run] /\ checkpoints \in [Sessions -> Checkpoint]
  BY DEF Sound, RunsSound, StoresSound
<1>b. \A s \in Runs : runs[s].at # "idle" => runs[s].session \in Sessions
  BY <1>a DEF RunSound
<1>1. ASSUME NEW r \in Runs, NEW c \in Sessions, NEW stream \in {"no", "asked"},
             NEW token \in {0} \cup told[c], Start(r, c, stream, token)
      PROVE  Promises'
  <2>1. \A s \in Runs : Quiet(s)
    BY <1>a, <1>1 DEF Start, Quiet, Resuming, Untelling
  <2> QED BY <1>1, <2>1, PromisesQuiet DEF Start
<1>2. ASSUME NEW r \in Runs,
             Fresh(r) \/ NoModel(r) \/ Drop(r) \/ Fail(r) \/ Pause(r) \/ Complete(r)
      PROVE  Promises'
  <2>1. /\ runs[r].at \in {"claim", "preflight", "run"}
        /\ UNCHANGED <<checkpoints, told, consumed>>
        /\ \/ End(r) \/ Go(r, "preflight") \/ Go(r, "release") \/ Go(r, "save")
           \/ Go(r, "answer")
    BY <1>2 DEF Fresh, NoModel, Drop, Fail, Pause, Complete
  <2>2. \A s \in Runs : Quiet(s) BY <2>1, EndQuiet, GoQuiet
  <2> QED BY <2>1, <2>2, PromisesQuiet
<1>3. ASSUME NEW r \in Runs, NEW ok \in BOOLEAN, Answer(r, ok) PROVE Promises'
  <2>1. /\ runs[r].at = "answer" /\ UNCHANGED <<checkpoints, told, consumed>>
        /\ End(r) \/ Go(r, "delete") \/ Go(r, "release")
    BY <1>3 DEF Answer
  <2>2. \A s \in Runs : Quiet(s) BY <2>1, EndQuiet, GoQuiet
  <2> QED BY <2>1, <2>2, PromisesQuiet
<1>4. ASSUME NEW r \in Runs, Preflight(r) PROVE Promises'
  <2>1. CASE runs[r].stream = "asked"
    <3>1. \A s \in Runs :
            runs'[s] = IF s = r THEN [runs[s] EXCEPT !.at = "run", !.stream = "going"]
                       ELSE IF s = active THEN [runs[s] EXCEPT !.stream = "stopped"]
                       ELSE runs[s]
      BY <1>4, <2>1 DEF Preflight
    <3>2. ASSUME NEW s \in Runs PROVE Quiet(s)
      <4>1. CASE s = r
        <5>1. runs'[s] = [runs[s] EXCEPT !.at = "run", !.stream = "going"]
          BY <3>1, <4>1
        <5> QED BY <1>4, <1>a, <4>1, <5>1 DEF Preflight, Quiet, Resuming, Untelling, Run
      <4>2. CASE s # r
        <5>1. runs'[s] \in {runs[s], [runs[s] EXCEPT !.stream = "stopped"]}
          BY <3>1, <4>2
        <5> QED BY <1>a, <5>1 DEF Quiet, Resuming, Untelling, Run
      <4> QED BY <4>1, <4>2
    <3> QED BY <1>4, <3>2, PromisesQuiet DEF Preflight
  <2>2. CASE runs[r].stream # "asked"
    <3>1. Go(r, "run") /\ runs[r].at = "preflight" /\ UNCHANGED <<checkpoints, told, consumed>>
      BY <1>4, <2>2 DEF Preflight
    <3> QED BY <3>1, GoQuiet, PromisesQuiet
  <2> QED BY <2>1, <2>2
<1>5. ASSUME NEW r \in Runs, NEW ok \in BOOLEAN, Claim(r, ok) PROVE Promises'
  <2> DEFINE c == runs[r].session
  <2>0. UNCHANGED <<told, consumed>> BY <1>5 DEF Claim
  <2>1. CASE End(r) /\ UNCHANGED checkpoints
    BY <2>0, <2>1, EndQuiet, PromisesQuiet
  <2>2. CASE ~(End(r) /\ UNCHANGED checkpoints)
    <3> PICK at \in {"preflight", "release"} :
          /\ checkpoints' = [checkpoints EXCEPT ![c].claim = r, ![c].left = LeaseTicks]
          /\ runs' = [runs EXCEPT ![r].at = at, ![r].token = checkpoints[c].token,
                                  ![r].resumed = TRUE, ![r].left = LeaseTicks]
      BY <1>5, <2>2 DEF Claim
    <3>1. c \in Sessions /\ checkpoints[c] \in Checkpoint
      BY <1>a, <1>b, <1>5 DEF Claim
    <3>2. /\ checkpoints'[c].claim = r /\ checkpoints'[c].token = checkpoints[c].token
          /\ \A d \in Sessions : /\ d # c => checkpoints'[d] = checkpoints[d]
                                 /\ checkpoints'[d].token = checkpoints[d].token
      BY <1>a, <3>1 DEF Checkpoint
    <3>3. /\ runs'[r].at = at /\ runs'[r].session = c
          /\ runs'[r].token = checkpoints[c].token
          /\ \A s \in Runs : s # r => runs'[s] = runs[s]
      BY <1>a DEF Run
    <3>4. \A s \in Runs : Resuming(s) \/ Untelling(s) => runs[s].session \in Sessions
      BY <1>b DEF Resuming, Untelling
    <3>5. \A s \in Runs : Untelling(s)' => s # r /\ runs'[s] = runs[s] /\ Untelling(s)
      BY <3>3 DEF Untelling
    <3> HIDE DEF c
    <3>6. ASSUME NEW s \in Runs, Resuming(s)', checkpoints'[runs'[s].session].claim = s
          PROVE  checkpoints'[runs'[s].session].token = runs'[s].token
      <4>1. CASE s = r
        <5>1. runs'[s].session = c /\ runs'[s].token = checkpoints[c].token
          BY <3>3, <4>1
        <5> QED BY <3>2, <5>1
      <4>2. CASE s # r
        <5>1. runs'[s] = runs[s] /\ Resuming(s) BY <3>3, <3>6, <4>2 DEF Resuming
        <5>2. runs[s].session # c BY <3>2, <3>6, <4>2, <5>1
        <5>3. checkpoints'[runs[s].session] = checkpoints[runs[s].session]
          BY <3>2, <3>4, <5>1, <5>2
        <5> QED BY <3>6, <5>1, <5>3 DEF Promises, ClaimFits
      <4> QED BY <4>1, <4>2
    <3>7. ClaimFits' BY <3>6 DEF ClaimFits, Resuming
    <3>8. TellsPending'
      <4> SUFFICES ASSUME NEW s \in Runs, runs'[s].at = "tell"
                   PROVE  runs'[s].token \in
                            consumed' \cup {checkpoints'[runs'[s].session].token}
        BY DEF TellsPending
      <4>1. /\ runs'[s] = runs[s] /\ runs[s].at = "tell"
            /\ runs[s].session \in Sessions
        BY <3>4, <3>5 DEF Untelling
      <4>2. checkpoints'[runs[s].session].token = checkpoints[runs[s].session].token
        BY <3>2, <4>1
      <4>3. runs[s].token \in consumed \cup {checkpoints[runs[s].session].token}
        BY <4>1 DEF Promises, TellsPending
      <4> QED BY <2>0, <4>1, <4>2, <4>3
    <3>9. UntoldOwned' BY <2>0, <3>5 DEF Promises, UntoldOwned
    <3>10. PromisesKept' BY <2>0, <3>2 DEF Promises, PromisesKept
    <3> QED BY <3>7, <3>8, <3>9, <3>10 DEF Promises
  <2> QED BY <2>1, <2>2
<1>6. ASSUME NEW r \in Runs, NEW ok \in BOOLEAN, SaveWaiting(r, ok) PROVE Promises'
  <2>0. UNCHANGED <<told, consumed>> BY <1>6 DEF SaveWaiting
  <2>1. CASE End(r) /\ UNCHANGED <<checkpoints, nextToken>>
    BY <2>0, <2>1, EndQuiet, PromisesQuiet
  <2>2. CASE ~(End(r) /\ UNCHANGED <<checkpoints, nextToken>>)
    <3>1. /\ runs[r].at = "save" /\ ~Present(runs[r].session)
          /\ checkpoints' = [checkpoints EXCEPT ![runs[r].session] = Saved(r)]
          /\ runs' = [runs EXCEPT ![r].at = "tell", ![r].token = nextToken]
      BY <1>6, <2>2 DEF SaveWaiting
    <3>2. runs[r].session \in Sessions BY <1>b, <3>1
    <3>3. checkpoints[runs[r].session].token \in {0} \cup consumed'
      BY <3>1 DEF Present
    <3> QED BY <2>0, <3>1, <3>2, <3>3, PromisesSaved
  <2> QED BY <2>1, <2>2
<1>7. ASSUME NEW r \in Runs, NEW ok \in BOOLEAN, ReplaceClaimed(r, ok) PROVE Promises'
  <2>0. runs[r].at = "save" /\ runs[r].resumed /\ UNCHANGED told
    BY <1>7 DEF ReplaceClaimed
  <2>1. CASE Go(r, "release") /\ UNCHANGED <<checkpoints, nextToken, consumed>>
    BY <2>0, <2>1, GoQuiet, PromisesQuiet
  <2>2. CASE ~(Go(r, "release") /\ UNCHANGED <<checkpoints, nextToken, consumed>>)
    <3>1. /\ Claims(r)
          /\ checkpoints' = [checkpoints EXCEPT ![runs[r].session] = Saved(r)]
          /\ runs' = [runs EXCEPT ![r].at = "tell", ![r].token = nextToken]
          /\ consumed' = consumed \cup {runs[r].token}
      BY <1>7, <2>2 DEF ReplaceClaimed
    <3>2. runs[r].session \in Sessions BY <1>b, <2>0
    <3>3. checkpoints[runs[r].session].token \in {0} \cup consumed'
      BY <2>0, <3>1 DEF Claims, Promises, ClaimFits, Resuming
    <3>4. consumed \subseteq consumed' BY <3>1
    <3> QED BY <2>0, <3>1, <3>2, <3>3, <3>4, PromisesSaved
  <2> QED BY <2>1, <2>2
<1>8. ASSUME NEW r \in Runs, NEW ok \in BOOLEAN, Tell(r, ok) PROVE Promises'
  <2> DEFINE c == runs[r].session
  <2>0. runs[r].at = "tell" /\ UNCHANGED <<checkpoints, consumed>> /\ c \in Sessions
    BY <1>8, <1>b DEF Tell
  <2>1. CASE Go(r, "cleanup") /\ UNCHANGED told
    BY <2>0, <2>1, GoQuiet, PromisesQuiet
  <2>2. CASE End(r) /\ UNCHANGED told
    BY <2>0, <2>2, EndQuiet, PromisesQuiet
  <2>3. CASE told' = [told EXCEPT ![c] = @ \cup {runs[r].token}] /\ End(r)
    <3>1. \A s \in Runs : Quiet(s) BY <2>3, EndQuiet
    <3>2. \A d \in Sessions : told'[d] \subseteq told[d] \cup {runs[r].token}
      BY <2>3 DEF Sound, StoresSound
    <3>3. \A d \in Sessions : d # c => told'[d] = told[d]
      BY <2>3 DEF Sound, StoresSound
    <3>4. \A s \in Runs : Untelling(s)' => s # r
      BY <1>a, <2>3 DEF End, Idle, Untelling
    <3>5. Untelling(r) BY <2>0 DEF Untelling
    <3>6. runs[r].token \in consumed \cup {checkpoints[c].token}
      BY <2>0 DEF Promises, TellsPending
    <3> HIDE DEF c
    <3>7. ClaimFits'
      BY <2>0, <3>1 DEF Promises, ClaimFits, Quiet, Resuming
    <3>8. TellsPending'
      BY <2>0, <3>1 DEF Promises, TellsPending, Quiet, Untelling
    <3>9. UntoldOwned'
      BY <3>1, <3>2, <3>4, <3>5 DEF Promises, UntoldOwned, Quiet
    <3>10. PromisesKept'
      BY <2>0, <3>2, <3>3, <3>6 DEF Promises, PromisesKept
    <3> QED BY <3>7, <3>8, <3>9, <3>10 DEF Promises
  <2> QED BY <1>8, <2>1, <2>2, <2>3 DEF Tell
<1>9. ASSUME NEW r \in Runs, NEW ok \in BOOLEAN,
             Cleanup(r, ok) \/ DeleteClaimed(r, ok) \/ Release(r, ok)
      PROVE  Promises'
  <2>1. End(r) /\ runs[r].at # "idle" /\ UNCHANGED told
    BY <1>9 DEF Cleanup, DeleteClaimed, Release
  <2>2. runs[r].session \in Sessions BY <1>b, <2>1
  <2>3. \A s \in Runs : Quiet(s) BY <2>1, EndQuiet
  <2>4. CASE UNCHANGED <<checkpoints, consumed>>
    BY <2>1, <2>3, <2>4, PromisesQuiet
  <2>5. CASE Release(r, ok) /\ ~UNCHANGED <<checkpoints, consumed>>
    <3>1. /\ UNCHANGED consumed
          /\ checkpoints' = [checkpoints EXCEPT ![runs[r].session] =
                               Unclaimed(checkpoints[runs[r].session])]
      BY <2>5 DEF Release
    <3>2. \A d \in Sessions : /\ checkpoints'[d].token = checkpoints[d].token
                              /\ checkpoints'[d].claim \in {None, checkpoints[d].claim}
      BY <1>a, <2>2, <3>1, CheckpointUpdates
    <3> QED BY <2>1, <2>3, <3>1, <3>2, PromisesQuiet
  <2>6. CASE Cleanup(r, ok) /\ ~UNCHANGED <<checkpoints, consumed>>
    <3>1. /\ UNCHANGED consumed /\ Untelling(r)
          /\ runs[r].token = checkpoints[runs[r].session].token
          /\ checkpoints' = [checkpoints EXCEPT ![runs[r].session] = NoCheckpoint]
      BY <2>6 DEF Cleanup, Untouched, Untelling
    <3> QED BY <2>1, <2>2, <3>1, PromisesDropped
  <2>7. CASE DeleteClaimed(r, ok) /\ ~UNCHANGED <<checkpoints, consumed>>
    <3>1. /\ Claims(r) /\ runs[r].at = "delete"
          /\ consumed' = consumed \cup {runs[r].token}
          /\ checkpoints' = [checkpoints EXCEPT ![runs[r].session] = NoCheckpoint]
      BY <2>7 DEF DeleteClaimed
    <3>2. runs[r].resumed BY <1>a, <3>1 DEF RunSound
    <3>3. checkpoints[runs[r].session].token \in consumed'
      BY <3>1, <3>2 DEF Claims, Promises, ClaimFits, Resuming
    <3> QED BY <2>1, <2>2, <3>1, <3>3, PromisesDropped
  <2> QED BY <1>9, <2>4, <2>5, <2>6, <2>7
<1>10. CASE \/ \E c \in Sessions : DeleteSession(c)
            \/ \E dsl \in Canvases : Edit(dsl)
            \/ UNCHANGED vars
  <2>1. UNCHANGED <<checkpoints, runs, told, consumed>>
    BY <1>10 DEF DeleteSession, Edit, vars
  <2>2. \A s \in Runs : Quiet(s) BY <2>1 DEF Quiet, Resuming, Untelling
  <2> QED BY <2>1, <2>2, PromisesQuiet
<1>11. CASE Tick
  <2>1. \A s \in Runs : runs'[s] = [runs[s] EXCEPT !.left = Down(runs[s].left)]
    BY <1>11 DEF Tick
  <2>2. ASSUME NEW s \in Runs PROVE Quiet(s)
    <3>1. /\ runs'[s].at = runs[s].at /\ runs'[s].resumed = runs[s].resumed
          /\ runs'[s].session = runs[s].session /\ runs'[s].token = runs[s].token
      <4>1. ASSUME NEW run \in Run, NEW n
            PROVE  LET next == [run EXCEPT !.left = n]
                   IN  /\ next.at = run.at /\ next.resumed = run.resumed
                       /\ next.session = run.session /\ next.token = run.token
        BY DEF Run
      <4>2. runs[s] \in Run /\ runs'[s] = [runs[s] EXCEPT !.left = Down(runs[s].left)]
        BY <1>a, <2>1
      <4> DEFINE n == Down(runs[s].left)
      <4>3. runs'[s] = [runs[s] EXCEPT !.left = n] BY <4>2
      <4> HIDE DEF n
      <4> QED BY <4>1, <4>2, <4>3
    <3> QED BY <3>1 DEF Quiet, Resuming, Untelling
  <2>3. \A d \in Sessions : checkpoints'[d] = [checkpoints[d] EXCEPT !.left = Down(@)]
    BY <1>11 DEF Tick
  <2>4. \A d \in Sessions : /\ checkpoints'[d].token = checkpoints[d].token
                            /\ checkpoints'[d].claim \in {None, checkpoints[d].claim}
    BY <1>a, <2>3, CheckpointUpdates
  <2> QED BY <1>11, <2>2, <2>4, PromisesQuiet DEF Tick
<1>12. CASE Restart
  <2>1. \A s \in Runs : Quiet(s)
    BY <1>12 DEF Restart, Quiet, Resuming, Untelling, Idle
  <2>2. \A d \in Sessions : checkpoints'[d] = Unclaimed(checkpoints[d])
    BY <1>12 DEF Restart
  <2>3. \A d \in Sessions : /\ checkpoints'[d].token = checkpoints[d].token
                            /\ checkpoints'[d].claim \in {None, checkpoints[d].claim}
    BY <1>a, <2>2, CheckpointUpdates
  <2> QED BY <1>12, <2>1, <2>3, PromisesQuiet DEF Restart
<1> QED
  BY <1>1, <1>2, <1>3, <1>4, <1>5, <1>6, <1>7, <1>8, <1>9, <1>10, <1>11, <1>12
     DEF Next, Request, Advance

\* A resume token that a client was told works until a run that claimed it used
\* it up, whatever fails, expires or restarts in between.
THEOREM TokensKept == Spec => []PromisesKept
<1>1. Promises => PromisesKept BY DEF Promises
<1> QED BY <1>1, SoundInit, SoundStep, PromisesInit, PromisesStep, PTL DEF Spec

=============================================================================
