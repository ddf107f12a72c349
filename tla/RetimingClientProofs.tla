------------------------- MODULE RetimingClientProofs -------------------------
(***************************************************************************)
(* What RetimingClient guarantees for any number of waiters, any buffer    *)
(* and any run-in. That calls return and waiters are served needs fairness *)
(* and is left to TLC.                                                     *)
(***************************************************************************)
EXTENDS RetimingClient, TLAPS

-----------------------------------------------------------------------------
(* Type correctness. *)

\* GetFrame takes a frame there is, and frames are told apart modulo FrameNumbers.
LEMMA FrameTakenTyped ==
  ASSUME TypeOK, FrameTaken
  PROVE  /\ connected' \in BOOLEAN
         /\ available' \in 0..BufferSize
         /\ m_LatestFrame' \in Frame
<1>1. m_LatestFrame \in Nat
  BY RetimingAssumption DEF TypeOK, Frame
<1>2. m_LatestFrame' \in Frame
  BY <1>1, RetimingAssumption DEF FrameTaken, Frame
<1>3. available' \in 0..BufferSize
  BY RetimingAssumption DEF FrameTaken, TypeOK
<1>4. QED
  BY <1>2, <1>3 DEF FrameTaken, TypeOK

\* Frame numbers begin with 0.
LEMMA FirstFrame == 0 \in Frame
BY RetimingAssumption DEF Frame

\* Whoever was waiting is woken, and the others stay where they are.
LEMMA NotifyAllTyped ==
  ASSUME TypeOK
  PROVE  NotifyAll \in [Waiters -> {"idle", "checked", "waiting", "notified"}]
BY DEF TypeOK, NotifyAll

LEMMA UserTypeStep == TypeOK /\ UserSteps => TypeOK'
<1> SUFFICES ASSUME TypeOK, UserSteps PROVE TypeOK'
  OBVIOUS
<1> USE DEF TypeOK
<1>1. CASE JoinOutput
  BY <1>1 DEF JoinOutput, clientVars, inputVars, waitVars
<1>2. CASE NotifyStopped
  BY <1>2, NotifyAllTyped, RetimingAssumption
     DEF NotifyStopped, clientVars, inputVars, outputVars
<1>3. CASE RunIn
  <2>1. runs' \in 0..RunInPeriod
    BY <1>3, RetimingAssumption DEF RunIn
  <2>2. connected' \in BOOLEAN /\ available' \in 0..BufferSize /\ m_LatestFrame' \in Frame
    BY <1>3, FrameTakenTyped DEF RunIn, clientVars
  <2>3. QED
    BY <1>3, <2>1, <2>2 DEF RunIn, inputVars, outputVars, waitVars
<1>4. CASE StartThread
  BY <1>4 DEF StartThread, clientVars, inputVars, waitVars
<1>5. CASE StopInput
  BY <1>5 DEF StopInput, clientVars, outputVars, waitVars
<1>6. CASE JoinInput
  BY <1>6 DEF JoinInput, clientVars, outputVars, waitVars
<1>7. CASE DisconnectClient
  BY <1>7 DEF DisconnectClient, inputVars, outputVars, waitVars
<1>8. QED
  BY <1>1, <1>2, <1>3, <1>4, <1>5, <1>6, <1>7 DEF UserSteps

LEMMA ThreadTypeStep == TypeOK /\ (InputSteps \/ OutputSteps) => TypeOK'
<1> SUFFICES ASSUME TypeOK, InputSteps \/ OutputSteps PROVE TypeOK'
  OBVIOUS
<1> USE DEF TypeOK
<1>1. CASE CheckInput
  BY <1>1 DEF CheckInput, clientVars, userVars, outputVars, waitVars
<1>2. CASE GetFrame
  <2>1. connected' \in BOOLEAN /\ available' \in 0..BufferSize /\ m_LatestFrame' \in Frame
    BY <1>2, FrameTakenTyped DEF GetFrame, clientVars
  <2>2. QED
    BY <1>2, <2>1 DEF GetFrame, userVars, outputVars, waitVars
<1>3. CASE GetFrameNumber
  BY <1>3 DEF GetFrameNumber, clientVars, userVars, outputVars, waitVars
<1>4. CASE AddData
  BY <1>4 DEF AddData, clientVars, userVars, outputVars, waitVars
<1>5. CASE CheckOutput
  BY <1>5 DEF CheckOutput, clientVars, userVars, inputVars, waitVars
<1>6. CASE OutputFrame
  BY <1>6, NotifyAllTyped DEF OutputFrame, clientVars, userVars, inputVars
<1>7. QED
  BY <1>1, <1>2, <1>3, <1>4, <1>5, <1>6 DEF InputSteps, OutputSteps

LEMMA TypeStep == TypeOK /\ [Next]_vars => TypeOK'
<1> SUFFICES ASSUME TypeOK, [Next]_vars PROVE TypeOK'
  OBVIOUS
<1> USE DEF TypeOK
<1>1. CASE Arrive
  BY <1>1, RetimingAssumption DEF Arrive, userVars, inputVars, outputVars, waitVars
<1>2. CASE Lose
  BY <1>2 DEF Lose, userVars, inputVars, outputVars, waitVars
<1>3. CASE Connect
  BY <1>3, RetimingAssumption DEF Connect, userVars, outputVars, waitVars
<1>4. ASSUME NEW then \in {"idle", "runIn", "stopInput"}, StopOutput(then)
      PROVE  TypeOK'
  BY <1>4 DEF StopOutput, clientVars, inputVars, waitVars
<1>5. CASE UserSteps
  BY <1>5, UserTypeStep
<1>6. CASE InputSteps \/ OutputSteps
  BY <1>6, ThreadTypeStep
<1>7. ASSUME NEW w \in Waiters, WaitForFrame(w) \/ Sleep(w) \/ Return(w)
      PROVE  TypeOK'
  <2>1. wait' \in [Waiters -> {"idle", "checked", "waiting", "notified"}]
    BY <1>7 DEF WaitForFrame, Sleep, Return
  <2>2. mutexOwner' \in Waiters \cup {NoBody}
    BY <1>7 DEF WaitForFrame, Sleep, Return
  <2>3. UNCHANGED <<clientVars, userVars, inputVars, outputVars>>
    BY <1>7 DEF WaitForFrame, Sleep, Return
  <2>4. QED
    BY <2>1, <2>2, <2>3 DEF clientVars, userVars, inputVars, outputVars
<1>8. CASE UNCHANGED vars
  BY <1>8 DEF vars, clientVars, userVars, inputVars, outputVars, waitVars
<1>9. QED
  BY <1>1, <1>2, <1>3, <1>4, <1>5, <1>6, <1>7, <1>8 DEF Next, StartOutput, Disconnect

\* The threads, the user and the waiters only ever are where the code has a place for them, and
\* the run-in makes no call too many (TypeOK).
THEOREM TypeCorrect == Spec => []TypeOK
<1>1. Init => TypeOK
  <2>1. ASSUME Init PROVE TypeOK
    <3>1. wait \in [Waiters -> {"idle", "checked", "waiting", "notified"}]
      BY <2>1 DEF Init
    <3>2. added \in [number : Frame, frame : Frame] /\ {m_LatestFrame, number} \subseteq Frame
      BY <2>1, FirstFrame DEF Init
    <3>3. available \in 0..BufferSize /\ runs \in 0..RunInPeriod
      BY <2>1, RetimingAssumption DEF Init
    <3>4. QED
      BY <2>1, <3>1, <3>2, <3>3 DEF Init, TypeOK
  <2>2. QED
    BY <2>1
<1>2. QED
  BY <1>1, TypeStep, PTL DEF Spec

-----------------------------------------------------------------------------
(* Disconnect leaves no thread behind. *)

\* Past the join of StopOutput there is no output thread until StartOutput makes one, and past the
\* join of StopInput no input thread.
ThreadsGone ==
  /\ user \in {"notify", "runIn", "stopInput", "joinInput", "disconnect"} => output = "none"
  /\ user = "disconnect" => input = "none"

LEMMA ThreadsGoneStep == TypeOK /\ ThreadsGone /\ [Next]_vars => ThreadsGone'
<1> SUFFICES ASSUME TypeOK, ThreadsGone, [Next]_vars PROVE ThreadsGone'
  OBVIOUS
<1> USE DEF ThreadsGone
<1>1. CASE Arrive \/ Lose
  BY <1>1 DEF Arrive, Lose, userVars, inputVars, outputVars
<1>2. CASE Connect
  BY <1>2 DEF Connect, userVars, outputVars
<1>3. ASSUME NEW then, StopOutput(then)
      PROVE  ThreadsGone'
  BY <1>3 DEF StopOutput, inputVars
<1>4. CASE UserSteps
  <2>1. CASE JoinOutput
    BY <2>1 DEF JoinOutput, inputVars
  <2>2. CASE NotifyStopped
    <3>1. user' \in {"idle", "runIn", "stopInput"} /\ output' = "none"
      BY <2>2 DEF NotifyStopped, outputVars, TypeOK
    <3>2. QED
      BY <3>1
  <2>3. CASE RunIn
    BY <2>3 DEF RunIn, inputVars, outputVars
  <2>4. CASE StartThread
    BY <2>4 DEF StartThread, inputVars
  <2>5. CASE StopInput
    BY <2>5 DEF StopInput, outputVars
  <2>6. CASE JoinInput
    BY <2>6 DEF JoinInput, outputVars
  <2>7. CASE DisconnectClient
    BY <2>7 DEF DisconnectClient, outputVars, inputVars
  <2>8. QED
    BY <1>4, <2>1, <2>2, <2>3, <2>4, <2>5, <2>6, <2>7 DEF UserSteps
<1>5. CASE InputSteps
  BY <1>5 DEF InputSteps, CheckInput, GetFrame, GetFrameNumber, AddData, userVars, outputVars
<1>6. CASE OutputSteps
  BY <1>6 DEF OutputSteps, CheckOutput, OutputFrame, userVars, inputVars, outputVars
<1>7. ASSUME NEW w \in Waiters, WaitForFrame(w) \/ Sleep(w) \/ Return(w)
      PROVE  ThreadsGone'
  BY <1>7 DEF WaitForFrame, Sleep, Return, userVars, inputVars, outputVars
<1>8. CASE UNCHANGED vars
  BY <1>8 DEF vars, userVars, inputVars, outputVars
<1>9. QED
  BY <1>1, <1>2, <1>3, <1>4, <1>5, <1>6, <1>7, <1>8 DEF Next, StartOutput, Disconnect

\* When Disconnect lets go of the VClient neither thread reads from it or retimes any more, however
\* many calls came before and whatever the waiters do (QuietAfterDisconnect).
THEOREM DisconnectLeavesNoThread == Spec => []QuietAfterDisconnect
<1>1. Init => ThreadsGone
  BY DEF Init, ThreadsGone
<1>2. ThreadsGone => QuietAfterDisconnect
  BY DEF ThreadsGone, QuietAfterDisconnect
<1>3. QED
  BY <1>1, <1>2, ThreadsGoneStep, TypeCorrect, PTL DEF Spec
=============================================================================
