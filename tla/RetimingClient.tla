---------------------------- MODULE RetimingClient ----------------------------
(***************************************************************************)
(* VRetimingClient (ViconDataStreamSDKCore/RetimingClient.cpp): its input  *)
(* thread feeds the retimer with the frames of a VClient, its output       *)
(* thread retimes at a rate of its own and wakes the callers of            *)
(* WaitForFrame, and one user thread starts and stops both.                *)
(*                                                                         *)
(* The VClient is in ServerPush mode with room for ten frames: GetFrame    *)
(* takes the oldest one that is there, or times out.  It is called by the  *)
(* input thread and, at the start of the output, by the user's thread.     *)
(* Frames are numbered modulo FrameNumbers; what the retimer computes is   *)
(* left out.  The user connects again only after Disconnect.               *)
(***************************************************************************)
EXTENDS Naturals

CONSTANTS
  Waiters,       \* threads that call WaitForFrame
  FrameNumbers,  \* frames are told apart modulo this
  BufferSize,    \* of the VClient
  RunInPeriod    \* the calls of GetFrame StartOutput makes

ASSUME RetimingAssumption ==
  /\ FrameNumbers \in Nat \ {0}
  /\ BufferSize \in Nat \ {0}
  /\ RunInPeriod \in Nat

\* No thread: what m_OutputMutex is held by when it is free.
NoBody == "nobody"

VARIABLES
  connected,        \* m_pClient->IsConnected()
  available,        \* frames in the VClient's buffer
  m_LatestFrame,    \* the number of the frame its getters read
  user,             \* where the user's thread is
  next,             \* what it does once the output has stopped
  runs,             \* the calls of GetFrame StartOutput has left
  input,            \* where InputThread is, "none" without a m_pInputThread
  m_bInputStopped,
  number,           \* the frame number InputThread has read
  added,            \* the last data added: their number, the frame they are of
  output,           \* where OutputThread is, "none" without a m_pOutputThread
  m_bOutputStopped,
  wait,             \* where each waiter is in WaitForFrame
  mutexOwner        \* the waiter that holds m_OutputMutex

clientVars == <<connected, available, m_LatestFrame>>
userVars   == <<user, next, runs>>
inputVars  == <<input, m_bInputStopped, number, added>>
outputVars == <<output, m_bOutputStopped>>
waitVars   == <<wait, mutexOwner>>
vars == <<clientVars, userVars, inputVars, outputVars, waitVars>>

Init ==
  /\ connected = FALSE
  /\ available = 0
  /\ m_LatestFrame = 0
  /\ user = "idle"
  /\ next = "idle"
  /\ runs = 0
  /\ input = "none"
  /\ m_bInputStopped = FALSE
  /\ number = 0
  /\ added = [number |-> 0, frame |-> 0]
  /\ output = "none"
  /\ m_bOutputStopped = FALSE
  /\ wait = [w \in Waiters |-> "idle"]
  /\ mutexOwner = NoBody

-----------------------------------------------------------------------------
(* The connection. *)

\* A frame is pushed; a full buffer sheds its oldest.
Arrive ==
  /\ connected
  /\ available' = IF available < BufferSize THEN available + 1 ELSE available
  /\ UNCHANGED <<connected, m_LatestFrame, userVars, inputVars, outputVars, waitVars>>

Lose ==
  /\ connected
  /\ connected' = FALSE
  /\ UNCHANGED <<available, m_LatestFrame, userVars, inputVars, outputVars, waitVars>>

\* VClient::GetFrame when there is a frame to take.
FrameTaken ==
  /\ connected
  /\ available > 0
  /\ available' = available - 1
  /\ m_LatestFrame' = (m_LatestFrame + 1) % FrameNumbers
  /\ UNCHANGED connected

-----------------------------------------------------------------------------
(* The user's thread. *)

\* Connect: ServerPush mode, and the input thread is started.
Connect ==
  /\ user = "idle"
  /\ input = "none"
  /\ connected' = TRUE
  /\ available' = 0
  /\ input' = "check"
  /\ UNCHANGED <<m_LatestFrame, userVars, m_bInputStopped, number, added, outputVars, waitVars>>

\* StopOutput as called by the user, by StartOutput and by Disconnect.
StopOutput(then) ==
  /\ user = "idle"
  /\ next' = then
  /\ IF output = "none"
     THEN /\ user' = "notify"
          /\ UNCHANGED m_bOutputStopped
     ELSE /\ user' = "joinOutput"
          /\ m_bOutputStopped' = TRUE
  /\ UNCHANGED <<clientVars, runs, inputVars, output, waitVars>>

\* The join of m_pOutputThread, and its reset.
JoinOutput ==
  /\ user = "joinOutput"
  /\ output = "ended"
  /\ output' = "none"
  /\ user' = "notify"
  /\ UNCHANGED <<clientVars, next, runs, inputVars, m_bOutputStopped, waitVars>>

NotifyAll == [w \in Waiters |-> IF wait[w] = "waiting" THEN "notified" ELSE wait[w]]

\* The notify_all that ends StopOutput is made without m_OutputMutex.
NotifyStopped ==
  /\ user = "notify"
  /\ wait' = NotifyAll
  /\ user' = next
  /\ runs' = IF next = "runIn" THEN RunInPeriod ELSE 0
  /\ UNCHANGED <<clientVars, next, inputVars, outputVars, mutexOwner>>

\* StartOutput is refused without an input thread and stops the output first.
StartOutput ==
  /\ input # "none"
  /\ StopOutput("runIn")

\* Mutant: one call too many.
RunInOnceMore ==
  /\ user = "runIn"
  /\ runs >= 0
  /\ runs' = runs - 1
  /\ FrameTaken \/ UNCHANGED clientVars
  /\ UNCHANGED <<user, next, inputVars, outputVars, waitVars>>

\* It then runs in: GetFrame, whether it takes a frame or not.
RunIn ==
  /\ user = "runIn"
  /\ runs > 0
  /\ runs' = runs - 1
  /\ FrameTaken \/ UNCHANGED clientVars
  /\ UNCHANGED <<user, next, inputVars, outputVars, waitVars>>

StartThread ==
  /\ user = "runIn"
  /\ runs = 0
  /\ output' = "check"
  /\ user' = "idle"
  /\ UNCHANGED <<clientVars, next, runs, inputVars, m_bOutputStopped, waitVars>>

Disconnect == StopOutput("stopInput")

\* Mutant: nothing waits for the input thread.
StopInputDetached ==
  /\ user = "stopInput"
  /\ m_bInputStopped' = TRUE
  /\ user' = "disconnect"
  /\ UNCHANGED <<clientVars, next, runs, input, number, added, outputVars, waitVars>>

\* The flag goes up even if there is no thread to see it.
StopInput ==
  /\ user = "stopInput"
  /\ m_bInputStopped' = TRUE
  /\ user' = IF input = "none" THEN "disconnect" ELSE "joinInput"
  /\ UNCHANGED <<clientVars, next, runs, input, number, added, outputVars, waitVars>>

JoinInput ==
  /\ user = "joinInput"
  /\ input = "ended"
  /\ input' = "none"
  /\ user' = "disconnect"
  /\ UNCHANGED <<clientVars, next, runs, m_bInputStopped, number, added, outputVars, waitVars>>

\* m_pClient->Disconnect.
DisconnectClient ==
  /\ user = "disconnect"
  /\ connected' = FALSE
  /\ user' = "idle"
  /\ UNCHANGED <<available, m_LatestFrame, next, runs, inputVars, outputVars, waitVars>>

-----------------------------------------------------------------------------
(* InputThread. *)

\* The flag is looked at between two frames; without a connection the thread
\* goes round and round.
CheckInput ==
  /\ input = "check"
  /\ IF m_bInputStopped
     THEN /\ m_bInputStopped' = FALSE
          /\ input' = "ended"
     ELSE /\ connected
          /\ input' = "get"
          /\ UNCHANGED m_bInputStopped
  /\ UNCHANGED <<clientVars, userVars, number, added, outputVars, waitVars>>

\* Mutant: a lost connection does not end the loop.
GetFrameForever ==
  /\ input = "get"
  /\ FrameTaken
  /\ input' = "number"
  /\ UNCHANGED <<userVars, m_bInputStopped, number, added, outputVars, waitVars>>

\* GetFrame is called until it takes a frame or the connection is gone, and the
\* flag is not looked at meanwhile.
GetFrame ==
  /\ input = "get"
  /\ \/ FrameTaken /\ input' = "number"
     \/ ~connected /\ input' = "check" /\ UNCHANGED clientVars
  /\ UNCHANGED <<userVars, m_bInputStopped, number, added, outputVars, waitVars>>

\* GetFrameNumber, which fails when the connection is gone.
GetFrameNumber ==
  /\ input = "number"
  /\ IF connected
     THEN number' = m_LatestFrame /\ input' = "data"
     ELSE input' = "check" /\ UNCHANGED number
  /\ UNCHANGED <<clientVars, userVars, m_bInputStopped, added, outputVars, waitVars>>

\* The subjects and segments are read by calls of their own and added.
AddData ==
  /\ input = "data"
  /\ added' = [number |-> number, frame |-> m_LatestFrame]
  /\ input' = "check"
  /\ UNCHANGED <<clientVars, userVars, m_bInputStopped, number, outputVars, waitVars>>

-----------------------------------------------------------------------------
(* OutputThread. *)

CheckOutput ==
  /\ output = "check"
  /\ IF m_bOutputStopped
     THEN output' = "ended" /\ m_bOutputStopped' = FALSE
     ELSE output' = "update" /\ UNCHANGED m_bOutputStopped
  /\ UNCHANGED <<clientVars, userVars, inputVars, waitVars>>

\* Mutant: one of those waiting is woken (notify_one).
OutputFrameNotifyOne ==
  /\ output = "update"
  /\ mutexOwner = NoBody
  /\ IF \E w \in Waiters : wait[w] = "waiting"
     THEN \E w \in Waiters :
            /\ wait[w] = "waiting"
            /\ wait' = [wait EXCEPT ![w] = "notified"]
     ELSE UNCHANGED wait
  /\ output' = "check"
  /\ UNCHANGED <<clientVars, userVars, inputVars, m_bOutputStopped, mutexOwner>>

\* Under m_OutputMutex the frame is retimed and everyone waiting is woken.
OutputFrame ==
  /\ output = "update"
  /\ mutexOwner = NoBody
  /\ wait' = NotifyAll
  /\ output' = "check"
  /\ UNCHANGED <<clientVars, userVars, inputVars, m_bOutputStopped, mutexOwner>>

-----------------------------------------------------------------------------
(* WaitForFrame. *)

\* The mutex is taken and the output is found running; if it is not, the call
\* returns NoFrame at once.
WaitForFrame(w) ==
  /\ wait[w] = "idle"
  /\ mutexOwner = NoBody
  /\ output # "none"
  /\ mutexOwner' = w
  /\ wait' = [wait EXCEPT ![w] = "checked"]
  /\ UNCHANGED <<clientVars, userVars, inputVars, outputVars>>

\* m_OutputWait.wait lets the mutex go and sleeps, without a predicate.
Sleep(w) ==
  /\ wait[w] = "checked"
  /\ mutexOwner' = NoBody
  /\ wait' = [wait EXCEPT ![w] = "waiting"]
  /\ UNCHANGED <<clientVars, userVars, inputVars, outputVars>>

Return(w) ==
  /\ wait[w] = "notified"
  /\ mutexOwner = NoBody
  /\ wait' = [wait EXCEPT ![w] = "idle"]
  /\ UNCHANGED <<clientVars, userVars, inputVars, outputVars, mutexOwner>>

-----------------------------------------------------------------------------

UserSteps ==
  \/ JoinOutput
  \/ NotifyStopped
  \/ RunIn
  \/ StartThread
  \/ StopInput
  \/ JoinInput
  \/ DisconnectClient

InputSteps  == CheckInput \/ GetFrame \/ GetFrameNumber \/ AddData
OutputSteps == CheckOutput \/ OutputFrame

Next ==
  \/ Arrive
  \/ Lose
  \/ Connect
  \/ StopOutput("idle")
  \/ StartOutput
  \/ Disconnect
  \/ UserSteps
  \/ InputSteps
  \/ OutputSteps
  \/ \E w \in Waiters : WaitForFrame(w) \/ Sleep(w) \/ Return(w)

Spec == Init /\ [][Next]_vars

\* The threads run, a server that is connected pushes frames, and a waiter gets
\* m_OutputMutex, which is free while OutputThread sleeps, in the end.  The user's
\* calls go on once made; none has to be made.
Fairness ==
  /\ WF_vars(Arrive)
  /\ WF_vars(UserSteps)
  /\ WF_vars(InputSteps)
  /\ WF_vars(OutputSteps)
  /\ \A w \in Waiters : WF_vars(Sleep(w)) /\ SF_vars(Return(w))

FairSpec == Spec /\ Fairness

-----------------------------------------------------------------------------

Frame == 0..FrameNumbers - 1

TypeOK ==
  /\ {connected, m_bInputStopped, m_bOutputStopped} \subseteq BOOLEAN
  /\ available \in 0..BufferSize
  /\ {m_LatestFrame, number} \subseteq Frame
  /\ user \in {"idle", "joinOutput", "notify", "runIn", "stopInput", "joinInput", "disconnect"}
  /\ next \in {"idle", "runIn", "stopInput"}
  /\ runs \in 0..RunInPeriod
  /\ input \in {"none", "check", "get", "number", "data", "ended"}
  /\ added \in [number : Frame, frame : Frame]
  /\ output \in {"none", "check", "update", "ended"}
  /\ wait \in [Waiters -> {"idle", "checked", "waiting", "notified"}]
  /\ mutexOwner \in Waiters \cup {NoBody}

\* Once Disconnect lets go of the VClient no thread of this client reads from it
\* or retimes any more.
QuietAfterDisconnect ==
  user = "disconnect" => input = "none" /\ output = "none"

\* Disconnect, StopOutput and StartOutput return: the threads they join see the
\* flags, which the threads take down themselves, as long as frames keep coming or
\* the connection breaks.
CallsReturn == user # "idle" ~> user = "idle"

\* While the output runs every WaitForFrame is served, however many wait and
\* whenever they begin to.
WaitersServed ==
  \A w \in Waiters :
    wait[w] = "waiting" /\ output # "none" ~> wait[w] = "idle" \/ output = "none"

\* "This call will block until the next frame is available"
\* (DataStreamRetimingClient.h): nobody is left waiting for an output that was
\* stopped, which is what the notify_all of StopOutput is for.
NobodyLeftWaiting ==
  user = "idle" /\ output = "none" => \A w \in Waiters : wait[w] # "waiting"

\* "Get a lock here so that we add all subjects from one frame together"
\* (RetimingClient.cpp): what is added under a frame number is that frame.
OneFrameTogether == added.number = added.frame
=============================================================================
