---------------------------- MODULE CGStreamClient ----------------------------
(***************************************************************************)
(* VViconCGStreamClient (ViconCGStreamClient/ViconCGStreamClient.cpp), the *)
(* TCP side of one route of a VCGClient: what the application asks for and *)
(* how it reaches the server.                                              *)
(*                                                                         *)
(* The setters leave a value and a "changed" flag behind; ClientThread     *)
(* writes what changed between two blocks it reads (WriteObjects), under   *)
(* m_Mutex.  Not every setter takes that mutex.  SetStreaming and the      *)
(* frame requests write to the socket themselves, under m_Mutex too.       *)
(*                                                                         *)
(* The application is VClient::GetFrame called over and over, with any of  *)
(* the other calls in between.  The server is external: "told" is the last *)
(* value of each setting flushed to its socket.  Ping IDs and round-trip   *)
(* times are left out; that a ping makes WriteObjects write is kept.       *)
(***************************************************************************)
EXTENDS Naturals, FiniteSets

CONSTANTS
  Types,       \* the object types there are (ViconCGStreamEnum)
  Contents,    \* the one that is always required
  Offers,      \* the sets of types a server may support
  Filters,     \* the filters an application may set
  NoFilter,    \* the empty filter, in force at first
  Devices,     \* the Apex devices
  MaxOwed,     \* the count of frames requested and not yet sent stops here
  OtherRoutes  \* may another route be connected when this one is not?

ASSUME StreamAssumption ==
  /\ Contents \in Types
  /\ Offers \subseteq SUBSET Types
  /\ NoFilter \notin Filters
  /\ MaxOwed \in Nat
  /\ OtherRoutes \in BOOLEAN

VARIABLES
  thread,                \* where ClientThread is
  out,                   \* what "told" is to become by the message being written
  m_RequestedObjects,    \* of the VCGClient
  m_HapticDeviceOnList,  \* of the VCGClient
  m_ServerObjects, m_RequiredObjects, m_bEnumsChanged,
  m_Filter, m_bFilterChanged,
  m_OnDeviceList, m_bHapticChanged,
  m_bPingChanged,
  m_bStreaming,
  setter,                \* is SetApexDeviceFeedback between its two assignments?
  told,                  \* what the server was told last, setting by setting
  streams,               \* was it told to stream?
  owed,                  \* frames requested and not yet sent
  app,                   \* where the application is in GetFrame
  frame                  \* is there a frame for it to take?

threadVars  == <<thread, out>>
typeVars    == <<m_RequestedObjects, m_ServerObjects, m_RequiredObjects, m_bEnumsChanged>>
filterVars  == <<m_Filter, m_bFilterChanged>>
hapticVars  == <<m_HapticDeviceOnList, m_OnDeviceList, m_bHapticChanged, setter>>
serverVars  == <<told, streams, owed>>
appVars     == <<app, frame>>
vars == <<threadVars, typeVars, filterVars, hapticVars, m_bPingChanged, m_bStreaming,
          serverVars, appVars>>

Settings == [enums  : SUBSET Types,
             haptic : SUBSET Devices,
             filter : {NoFilter} \cup Filters]

\* ClientThread is inside WriteObjects and holds m_Mutex.
Writing == thread \in {"haptic", "hapticClear", "filter", "pingClear", "flush"}

\* The socket takes what is written to it.
SocketUp == thread \notin {"none", "starting", "ended"}

\* VClient lets a call pass when IsConnected, which any route will do.
Callable == thread # "none" /\ (SocketUp \/ OtherRoutes)

Init ==
  /\ thread = "none"
  /\ m_RequestedObjects = {}
  /\ m_HapticDeviceOnList = {}
  /\ m_ServerObjects = {}
  /\ m_RequiredObjects = {}
  /\ m_bEnumsChanged = FALSE
  /\ m_Filter = NoFilter
  /\ m_bFilterChanged = FALSE
  /\ m_OnDeviceList = {}
  /\ m_bHapticChanged = FALSE
  /\ m_bPingChanged = FALSE
  /\ m_bStreaming = FALSE
  /\ setter = FALSE
  /\ told = [enums |-> {}, haptic |-> {}, filter |-> NoFilter]
  /\ streams = FALSE
  /\ out = told
  /\ owed = 0
  /\ app = "idle"
  /\ frame = FALSE

-----------------------------------------------------------------------------
(* Calls of the application. *)

\* Mutant: without the mutex, a change may slip in while WriteObjects runs.
SetRequiredObjectsUnlocked(required) ==
  /\ m_RequiredObjects' = required \cup {Contents}
  /\ m_bEnumsChanged' = TRUE

SetRequiredObjects(required) ==
  /\ ~Writing
  /\ m_RequiredObjects' = required \cup {Contents}
  /\ m_bEnumsChanged' = TRUE

\* VCGClient::Connect hands the requested types to the route it makes.
Connect ==
  /\ thread = "none"
  /\ SetRequiredObjects(m_RequestedObjects)
  /\ thread' = "starting"
  /\ UNCHANGED <<out, m_RequestedObjects, m_ServerObjects, filterVars, hapticVars,
                 m_bPingChanged, m_bStreaming, serverVars, appVars>>

\* Until the server said what it supports, everything is.
ObjectIsSupported(type) == m_ServerObjects = {} \/ type \in m_ServerObjects

\* Enabling a type the server is known not to support changes nothing.
SetRequestTypes(type, enable) ==
  /\ enable => thread = "none" \/ ObjectIsSupported(type)
  /\ m_RequestedObjects' = IF enable THEN m_RequestedObjects \cup {type}
                           ELSE m_RequestedObjects \ {type}
  /\ IF thread = "none"
     THEN UNCHANGED <<m_RequiredObjects, m_bEnumsChanged>>
     ELSE SetRequiredObjects(m_RequestedObjects')
  /\ UNCHANGED <<threadVars, m_ServerObjects, filterVars, hapticVars, m_bPingChanged,
                 m_bStreaming, serverVars, appVars>>

SetFilter(filter) ==
  /\ thread # "none"
  /\ ~Writing
  /\ m_Filter' = filter
  /\ m_bFilterChanged' = TRUE
  /\ UNCHANGED <<threadVars, typeVars, hapticVars, m_bPingChanged, m_bStreaming,
                 serverVars, appVars>>

\* VCGClient::SetApexDeviceFeedback for a device that is not yet as asked, and
\* the first assignment of the route's, which takes no mutex.
SetApexDeviceFeedback(device) ==
  /\ ~setter
  /\ m_HapticDeviceOnList' = IF device \in m_HapticDeviceOnList
                             THEN m_HapticDeviceOnList \ {device}
                             ELSE m_HapticDeviceOnList \cup {device}
  /\ IF thread # "none" /\ m_HapticDeviceOnList' # m_OnDeviceList
     THEN /\ m_bHapticChanged' = TRUE
          /\ setter' = TRUE
     ELSE UNCHANGED <<m_bHapticChanged, setter>>
  /\ UNCHANGED <<threadVars, typeVars, filterVars, m_OnDeviceList, m_bPingChanged,
                 m_bStreaming, serverVars, appVars>>

\* The second assignment.
AssignDeviceList ==
  /\ setter
  /\ m_OnDeviceList' = m_HapticDeviceOnList
  /\ setter' = FALSE
  /\ UNCHANGED <<threadVars, typeVars, filterVars, m_HapticDeviceOnList, m_bHapticChanged,
                 m_bPingChanged, m_bStreaming, serverVars, appVars>>

Owe == owed' = IF owed < MaxOwed THEN owed + 1 ELSE owed

\* A VRequestFrame, which also says whether to stream, leaves for the server.
\* The result of Flush is ignored: on a socket not connected it is lost.
WriteRequestFrame(streaming) ==
  IF SocketUp
  THEN /\ streams' = streaming
       /\ IF streaming THEN UNCHANGED owed ELSE Owe
       /\ UNCHANGED told
  ELSE UNCHANGED serverVars

SetStreaming(streaming) ==
  /\ Callable
  /\ ~Writing
  /\ m_bStreaming # streaming
  /\ m_bStreaming' = streaming
  /\ WriteRequestFrame(streaming)
  /\ UNCHANGED <<threadVars, typeVars, filterVars, hapticVars, m_bPingChanged, appVars>>

\* RequestNextFrame, for a client that prefetches.
RequestNextFrame ==
  /\ SocketUp
  /\ ~Writing
  /\ ~m_bStreaming
  /\ Owe
  /\ UNCHANGED <<threadVars, typeVars, filterVars, hapticVars, m_bPingChanged, m_bStreaming,
                 told, streams, appVars>>

\* VClient::GetFrame requests a frame, which does nothing when streaming ...
GetFrame ==
  /\ Callable
  /\ app = "idle"
  /\ ~Writing
  /\ IF m_bStreaming THEN UNCHANGED serverVars ELSE WriteRequestFrame(FALSE)
  /\ app' = "waiting"
  /\ UNCHANGED <<threadVars, typeVars, filterVars, hapticVars, m_bPingChanged, m_bStreaming,
                 frame>>

\* ... waits for one and, when it has come, sends a ping: SendPing takes no mutex
\* and leaves the writing to ClientThread.
SendPing ==
  /\ app = "waiting"
  /\ frame
  /\ frame' = FALSE
  /\ m_bPingChanged' = TRUE
  /\ app' = "idle"
  /\ UNCHANGED <<threadVars, typeVars, filterVars, hapticVars, m_bStreaming, serverVars>>

WaitTimesOut ==
  /\ app = "waiting"
  /\ ~frame
  /\ app' = "idle"
  /\ UNCHANGED <<threadVars, typeVars, filterVars, hapticVars, m_bPingChanged, m_bStreaming,
                 serverVars, frame>>

-----------------------------------------------------------------------------
(* ClientThread. *)

Move(from, to) == thread = from /\ thread' = to

Unsettled == <<m_RequestedObjects, m_RequiredObjects, hapticVars, m_bStreaming>>

OnConnect ==
  /\ Move("starting", "hello")
  /\ UNCHANGED <<out, typeVars, filterVars, hapticVars, m_bPingChanged, m_bStreaming,
                 serverVars, appVars>>

\* The connection could not be made, or a read or a write failed; OnDisconnect.
Ends ==
  /\ \E from \in {"starting", "hello", "reading", "flush"} : Move(from, "ended")
  /\ out' = told
  /\ m_bEnumsChanged' = IF thread = "flush" THEN FALSE ELSE m_bEnumsChanged
  /\ UNCHANGED <<m_ServerObjects, Unsettled, filterVars, m_bPingChanged, serverVars, appVars>>

\* The server's first block says what it supports.
ReadObjectEnums ==
  /\ Move("hello", "loop")
  /\ m_ServerObjects' \in Offers
  /\ m_bEnumsChanged' = TRUE
  /\ UNCHANGED <<out, Unsettled, filterVars, m_bPingChanged, serverVars, appVars>>

\* Mutant: a ping alone does not make it write.
WriteObjectsNotForPing ==
  /\ thread = "loop"
  /\ IF m_bEnumsChanged \/ m_bHapticChanged
     THEN /\ thread' = "haptic"
          /\ out' = IF m_bEnumsChanged
                    THEN [told EXCEPT !.enums = m_ServerObjects \cap m_RequiredObjects]
                    ELSE told
     ELSE /\ thread' = "reading"
          /\ UNCHANGED out
  /\ UNCHANGED <<typeVars, filterVars, hapticVars, m_bPingChanged, m_bStreaming,
                 serverVars, appVars>>

\* WriteObjects takes m_Mutex and looks at the flags; a changed filter alone does
\* not make it write.  The types come first.
WriteObjects ==
  /\ thread = "loop"
  /\ IF m_bEnumsChanged \/ m_bHapticChanged \/ m_bPingChanged
     THEN /\ thread' = "haptic"
          /\ out' = IF m_bEnumsChanged
                    THEN [told EXCEPT !.enums = m_ServerObjects \cap m_RequiredObjects]
                    ELSE told
     ELSE /\ thread' = "reading"
          /\ UNCHANGED out
  /\ UNCHANGED <<typeVars, filterVars, hapticVars, m_bPingChanged, m_bStreaming,
                 serverVars, appVars>>

WriteHaptic ==
  /\ thread = "haptic"
  /\ IF m_bHapticChanged
     THEN /\ thread' = "hapticClear"
          /\ out' = [out EXCEPT !.haptic = m_OnDeviceList]
     ELSE /\ thread' = "filter"
          /\ UNCHANGED out
  /\ UNCHANGED <<typeVars, filterVars, hapticVars, m_bPingChanged, m_bStreaming,
                 serverVars, appVars>>

ClearHaptic ==
  /\ Move("hapticClear", "filter")
  /\ m_bHapticChanged' = FALSE
  /\ UNCHANGED <<out, typeVars, filterVars, m_HapticDeviceOnList, m_OnDeviceList, setter,
                 m_bPingChanged, m_bStreaming, serverVars, appVars>>

\* The filter if it changed, and the ping.
WriteFilter ==
  /\ thread = "filter"
  /\ thread' = IF m_bPingChanged THEN "pingClear" ELSE "flush"
  /\ out' = IF m_bFilterChanged THEN [out EXCEPT !.filter = m_Filter] ELSE out
  /\ m_bFilterChanged' = FALSE
  /\ UNCHANGED <<typeVars, m_Filter, hapticVars, m_bPingChanged, m_bStreaming,
                 serverVars, appVars>>

ClearPing ==
  /\ Move("pingClear", "flush")
  /\ m_bPingChanged' = FALSE
  /\ UNCHANGED <<out, typeVars, filterVars, hapticVars, m_bStreaming, serverVars, appVars>>

\* The message goes out and m_Mutex is let go.
Flush ==
  /\ Move("flush", "reading")
  /\ m_bEnumsChanged' = FALSE
  /\ told' = out
  /\ UNCHANGED <<out, streams, m_ServerObjects, Unsettled, filterVars, m_bPingChanged, owed, appVars>>

\* Mutant: a streamed frame counts as the answer to a request.
ReadFrameCounts ==
  /\ Move("reading", "loop")
  /\ streams \/ owed > 0
  /\ owed' = owed - 1
  /\ frame' = TRUE
  /\ UNCHANGED <<out, typeVars, filterVars, hapticVars, m_bPingChanged, m_bStreaming,
                 told, streams, app>>

\* ReadObjects gets a frame the server streams or owes and hands it over.
ReadFrame ==
  /\ Move("reading", "loop")
  /\ streams \/ owed > 0
  /\ owed' = IF streams THEN owed ELSE owed - 1
  /\ frame' = TRUE
  /\ UNCHANGED <<out, typeVars, filterVars, hapticVars, m_bPingChanged, m_bStreaming,
                 told, streams, app>>

-----------------------------------------------------------------------------

SetterNext ==
  \/ Connect
  \/ \E type \in Types, enable \in BOOLEAN : SetRequestTypes(type, enable)
  \/ \E filter \in Filters : SetFilter(filter)
  \/ \E device \in Devices : SetApexDeviceFeedback(device)
  \/ AssignDeviceList
  \/ \E streaming \in BOOLEAN : SetStreaming(streaming)
  \/ RequestNextFrame

AppNext == GetFrame \/ SendPing \/ WaitTimesOut

ThreadWrites ==
  \/ ReadObjectEnums
  \/ WriteObjects
  \/ WriteHaptic
  \/ ClearHaptic
  \/ WriteFilter
  \/ ClearPing
  \/ Flush

Next ==
  \/ SetterNext
  \/ AppNext
  \/ OnConnect
  \/ Ends
  \/ ThreadWrites
  \/ ReadFrame

Spec == Init /\ [][Next]_vars

\* ClientThread runs, a server that streams or owes a frame sends one, and the
\* application calls GetFrame again and again.  No one has to call a setter.
Fairness ==
  /\ WF_vars(ThreadWrites)
  /\ WF_vars(ReadFrame)
  /\ WF_vars(AssignDeviceList)
  /\ WF_vars(GetFrame)
  /\ WF_vars(SendPing)
  /\ WF_vars(WaitTimesOut)

FairSpec == Spec /\ Fairness

-----------------------------------------------------------------------------

TypeOK ==
  /\ thread \in {"none", "starting", "hello", "loop", "reading", "ended"}
                \cup {"haptic", "hapticClear", "filter", "pingClear", "flush"}
  /\ {out, told} \subseteq Settings
  /\ m_RequestedObjects \subseteq Types
  /\ m_ServerObjects \in Offers \cup {{}}
  /\ m_RequiredObjects \subseteq Types
  /\ m_Filter \in {NoFilter} \cup Filters
  /\ m_HapticDeviceOnList \subseteq Devices
  /\ m_OnDeviceList \subseteq Devices
  /\ {m_bEnumsChanged, m_bFilterChanged, m_bHapticChanged, m_bPingChanged, m_bStreaming,
      setter, streams, frame} \subseteq BOOLEAN
  /\ owed \in 0..MaxOwed
  /\ app \in {"idle", "waiting"}

\* ClientThread is between two writes.
Between == thread \in {"loop", "reading"}

\* No change of the required types or of the filter is lost between its setter,
\* which may come at any moment, and the clearing of the flags in WriteObjects:
\* with the flag down, what the setter left is what the server has.
SettingsTold ==
  Between =>
    /\ m_RequiredObjects = m_RequestedObjects \cup {Contents}
    /\ ~m_bEnumsChanged => told.enums = m_ServerObjects \cap m_RequiredObjects
    /\ ~m_bFilterChanged => told.filter = m_Filter

\* A filter is written in the end as long as the application goes on calling
\* GetFrame, streaming or not.  It does not make WriteObjects write: it is the ping
\* VClient sends after each frame that takes it along.
FilterArrives ==
  m_bFilterChanged /\ SocketUp ~> ~m_bFilterChanged \/ thread = "ended"

\* A route that reads frames was told of the stream mode the client believes in:
\* "Request that data is constantly streamed from the server, rather than sent on
\* request" (ICGClient.h).
StreamingTold ==
  thread = "reading" => streams = m_bStreaming
=============================================================================
