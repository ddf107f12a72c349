------------------------- MODULE CGStreamClientProofs -------------------------
(***************************************************************************)
(* What CGStreamClient guarantees for any types, servers, filters and      *)
(* devices. That a filter arrives in the end needs fairness and is left to *)
(* TLC.                                                                    *)
(***************************************************************************)
EXTENDS CGStreamClient, TLAPS

-----------------------------------------------------------------------------
(* Type correctness. *)

\* What is told stays typed when one setting is written.
LEMMA SettingsTyped ==
  ASSUME NEW s \in Settings
  PROVE  /\ \A e \in SUBSET Types : [s EXCEPT !.enums = e] \in Settings
         /\ \A h \in SUBSET Devices : [s EXCEPT !.haptic = h] \in Settings
         /\ \A f \in {NoFilter} \cup Filters : [s EXCEPT !.filter = f] \in Settings
BY DEF Settings

\* A request is counted up to the bound.
LEMMA OweTyped == TypeOK /\ Owe => owed' \in 0..MaxOwed
BY StreamAssumption DEF TypeOK, Owe

\* Whatever is written to the socket, connected or not.
LEMMA RequestTyped ==
  ASSUME TypeOK, NEW streaming \in BOOLEAN, WriteRequestFrame(streaming)
  PROVE  told' = told /\ streams' \in BOOLEAN /\ owed' \in 0..MaxOwed
BY OweTyped DEF WriteRequestFrame, serverVars, TypeOK

\* The types that are required hold those that are always required.
LEMMA RequiredTyped ==
  ASSUME NEW required \in SUBSET Types, SetRequiredObjects(required)
  PROVE  m_RequiredObjects' \subseteq Types /\ m_bEnumsChanged' \in BOOLEAN
BY StreamAssumption DEF SetRequiredObjects

LEMMA SetterTypeStep == TypeOK /\ SetterNext => TypeOK'
<1> SUFFICES ASSUME TypeOK, SetterNext PROVE TypeOK'
  OBVIOUS
<1> USE DEF TypeOK
<1>1. CASE Connect
  BY <1>1, RequiredTyped
     DEF Connect, filterVars, hapticVars, serverVars, appVars
<1>2. ASSUME NEW type \in Types, NEW enable \in BOOLEAN, SetRequestTypes(type, enable)
      PROVE  TypeOK'
  <2>1. m_RequestedObjects' \subseteq Types
    BY <1>2 DEF SetRequestTypes
  <2>2. m_RequiredObjects' \subseteq Types /\ m_bEnumsChanged' \in BOOLEAN
    BY <1>2, <2>1, RequiredTyped DEF SetRequestTypes
  <2>3. QED
    BY <1>2, <2>1, <2>2
       DEF SetRequestTypes, threadVars, filterVars, hapticVars, serverVars, appVars
<1>3. ASSUME NEW filter \in Filters, SetFilter(filter)
      PROVE  TypeOK'
  BY <1>3 DEF SetFilter, threadVars, typeVars, hapticVars, serverVars, appVars
<1>4. ASSUME NEW device \in Devices, SetApexDeviceFeedback(device)
      PROVE  TypeOK'
  <2>1. m_HapticDeviceOnList' \subseteq Devices
    BY <1>4 DEF SetApexDeviceFeedback
  <2>2. {m_bHapticChanged', setter'} \subseteq BOOLEAN
    BY <1>4 DEF SetApexDeviceFeedback
  <2>3. QED
    BY <1>4, <2>1, <2>2
       DEF SetApexDeviceFeedback, threadVars, typeVars, filterVars, serverVars, appVars
<1>5. CASE AssignDeviceList
  BY <1>5 DEF AssignDeviceList, threadVars, typeVars, filterVars, serverVars, appVars
<1>6. ASSUME NEW streaming \in BOOLEAN, SetStreaming(streaming)
      PROVE  TypeOK'
  <2>1. told' = told /\ streams' \in BOOLEAN /\ owed' \in 0..MaxOwed
    BY <1>6, RequestTyped DEF SetStreaming
  <2>2. QED
    BY <1>6, <2>1 DEF SetStreaming, threadVars, typeVars, filterVars, hapticVars, appVars
<1>7. CASE RequestNextFrame
  <2>1. owed' \in 0..MaxOwed
    BY <1>7, OweTyped DEF RequestNextFrame
  <2>2. QED
    BY <1>7, <2>1 DEF RequestNextFrame, threadVars, typeVars, filterVars, hapticVars, appVars
<1>8. QED
  BY <1>1, <1>2, <1>3, <1>4, <1>5, <1>6, <1>7 DEF SetterNext

LEMMA AppTypeStep == TypeOK /\ AppNext => TypeOK'
<1> SUFFICES ASSUME TypeOK, AppNext PROVE TypeOK'
  OBVIOUS
<1> USE DEF TypeOK
<1>1. CASE GetFrame
  <2>1. told' = told /\ streams' \in BOOLEAN /\ owed' \in 0..MaxOwed
    BY <1>1, RequestTyped DEF GetFrame, serverVars
  <2>2. QED
    BY <1>1, <2>1 DEF GetFrame, threadVars, typeVars, filterVars, hapticVars
<1>2. CASE SendPing
  BY <1>2 DEF SendPing, threadVars, typeVars, filterVars, hapticVars, serverVars
<1>3. CASE WaitTimesOut
  BY <1>3 DEF WaitTimesOut, threadVars, typeVars, filterVars, hapticVars, serverVars
<1>4. QED
  BY <1>1, <1>2, <1>3 DEF AppNext

LEMMA ThreadTypeStep == TypeOK /\ (OnConnect \/ Ends \/ ThreadWrites \/ ReadFrame) => TypeOK'
<1> SUFFICES ASSUME TypeOK, OnConnect \/ Ends \/ ThreadWrites \/ ReadFrame PROVE TypeOK'
  OBVIOUS
<1> USE DEF TypeOK
<1>1. CASE OnConnect
  BY <1>1 DEF OnConnect, Move, typeVars, filterVars, hapticVars, serverVars, appVars
<1>2. CASE Ends
  BY <1>2 DEF Ends, Move, Unsettled, filterVars, hapticVars, serverVars, appVars
<1>3. CASE ReadObjectEnums
  BY <1>3 DEF ReadObjectEnums, Move, Unsettled, filterVars, hapticVars, serverVars, appVars
<1>4. CASE WriteObjects
  <2>1. m_ServerObjects \cap m_RequiredObjects \in SUBSET Types
    OBVIOUS
  <2>2. out' \in Settings
    BY <1>4, <2>1, SettingsTyped DEF WriteObjects
  <2>3. QED
    BY <1>4, <2>2 DEF WriteObjects, typeVars, filterVars, hapticVars, serverVars, appVars
<1>5. CASE WriteHaptic
  <2>1. out' \in Settings
    BY <1>5, SettingsTyped DEF WriteHaptic
  <2>2. QED
    BY <1>5, <2>1 DEF WriteHaptic, typeVars, filterVars, hapticVars, serverVars, appVars
<1>6. CASE ClearHaptic
  BY <1>6 DEF ClearHaptic, Move, typeVars, filterVars, serverVars, appVars
<1>7. CASE WriteFilter
  <2>1. out' \in Settings
    BY <1>7, SettingsTyped DEF WriteFilter
  <2>2. QED
    BY <1>7, <2>1 DEF WriteFilter, typeVars, hapticVars, serverVars, appVars
<1>8. CASE ClearPing
  BY <1>8 DEF ClearPing, Move, typeVars, filterVars, hapticVars, serverVars, appVars
<1>9. CASE Flush
  BY <1>9 DEF Flush, Move, Unsettled, filterVars, hapticVars, appVars
<1>10. CASE ReadFrame
  <2>1. owed' \in 0..MaxOwed
    BY <1>10, StreamAssumption DEF ReadFrame
  <2>2. QED
    BY <1>10, <2>1 DEF ReadFrame, Move, typeVars, filterVars, hapticVars
<1>11. QED
  BY <1>1, <1>2, <1>3, <1>4, <1>5, <1>6, <1>7, <1>8, <1>9, <1>10 DEF ThreadWrites

LEMMA StutterTyped == TypeOK /\ UNCHANGED vars => TypeOK'
BY DEF TypeOK, vars, threadVars, typeVars, filterVars, hapticVars, serverVars, appVars

LEMMA TypeStep == TypeOK /\ [Next]_vars => TypeOK'
BY SetterTypeStep, AppTypeStep, ThreadTypeStep, StutterTyped DEF Next

LEMMA TypeInit == Init => TypeOK
<1> SUFFICES ASSUME Init PROVE TypeOK
  OBVIOUS
<1>1. told \in Settings /\ out \in Settings
  BY DEF Init, Settings
<1>2. /\ m_ServerObjects \in Offers \cup {{}}
      /\ owed \in 0..MaxOwed
  BY StreamAssumption DEF Init
<1>3. QED
  BY <1>1, <1>2 DEF Init, TypeOK

\* The thread of a route and its settings only ever are what the code can make of them (TypeOK).
THEOREM TypeCorrect == Spec => []TypeOK
BY TypeInit, TypeStep, PTL DEF Spec

-----------------------------------------------------------------------------
(* No setting is lost. *)

\* The types: those required are those requested as soon as there is a route; between two writes
\* the flag is up or they were told, and while WriteObjects runs they are in what is being written.
TypesKept ==
  /\ thread # "none" => m_RequiredObjects = m_RequestedObjects \cup {Contents}
  /\ Between /\ ~m_bEnumsChanged => told.enums = m_ServerObjects \cap m_RequiredObjects
  /\ Writing => out.enums = m_ServerObjects \cap m_RequiredObjects

\* The filter: until WriteObjects begins the flag is up or it was told; then, until it is the
\* filter's turn, the flag is up or what was told is being written again; and then it is written.
FilterKept ==
  /\ thread \in {"none", "starting", "hello", "loop", "reading"} /\ ~m_bFilterChanged
       => told.filter = m_Filter
  /\ thread \in {"haptic", "hapticClear", "filter"} /\ ~m_bFilterChanged
       => out.filter = m_Filter
  /\ thread \in {"pingClear", "flush"} => ~m_bFilterChanged /\ out.filter = m_Filter

LEMMA TypesKeptStep == TypeOK /\ TypesKept /\ [Next]_vars => TypesKept'
<1> SUFFICES ASSUME TypeOK, TypesKept, [Next]_vars PROVE TypesKept'
  OBVIOUS
<1> USE DEF TypesKept, Between, Writing
<1>1. CASE Connect
  BY <1>1 DEF Connect, SetRequiredObjects
<1>2. ASSUME NEW type \in Types, NEW enable \in BOOLEAN, SetRequestTypes(type, enable)
      PROVE  TypesKept'
  <2>1. CASE thread = "none"
    BY <1>2, <2>1 DEF SetRequestTypes, threadVars
  <2>2. CASE thread # "none"
    <3>1. /\ ~Writing
          /\ m_RequiredObjects' = m_RequestedObjects' \cup {Contents}
          /\ m_bEnumsChanged'
          /\ thread' = thread
      BY <1>2, <2>2 DEF SetRequestTypes, SetRequiredObjects, threadVars
    <3>2. QED
      BY <3>1
  <2>3. QED
    BY <2>1, <2>2
<1>3. CASE \/ \E filter \in Filters : SetFilter(filter)
           \/ \E device \in Devices : SetApexDeviceFeedback(device)
           \/ AssignDeviceList
  BY <1>3 DEF SetFilter, SetApexDeviceFeedback, AssignDeviceList, threadVars, typeVars, serverVars
<1>4. CASE \/ \E streaming \in BOOLEAN : SetStreaming(streaming)
           \/ RequestNextFrame
           \/ AppNext
  BY <1>4 DEF SetStreaming, RequestNextFrame, AppNext, GetFrame, SendPing, WaitTimesOut,
              WriteRequestFrame, threadVars, typeVars, serverVars
<1>5. CASE OnConnect
  BY <1>5 DEF OnConnect, Move, typeVars
<1>6. CASE Ends
  BY <1>6 DEF Ends, Move, Unsettled
<1>7. CASE ReadObjectEnums
  BY <1>7 DEF ReadObjectEnums, Move, Unsettled
<1>8. CASE WriteObjects
  <2>1. CASE thread' = "haptic"
    BY <1>8, <2>1 DEF WriteObjects, typeVars, serverVars, TypeOK, Settings
  <2>2. CASE thread' = "reading"
    BY <1>8, <2>2 DEF WriteObjects, typeVars, serverVars
  <2>3. QED
    BY <1>8, <2>1, <2>2 DEF WriteObjects
<1>9. CASE WriteHaptic \/ WriteFilter
  <2>1. out'.enums = out.enums /\ Writing'
    BY <1>9 DEF WriteHaptic, WriteFilter, TypeOK, Settings
  <2>2. QED
    BY <1>9, <2>1 DEF WriteHaptic, WriteFilter, typeVars
<1>10. CASE ClearHaptic \/ ClearPing
  BY <1>10 DEF ClearHaptic, ClearPing, Move, typeVars
<1>11. CASE Flush
  BY <1>11 DEF Flush, Move, Unsettled
<1>12. CASE ReadFrame
  BY <1>12 DEF ReadFrame, Move, typeVars
<1>13. CASE UNCHANGED vars
  BY <1>13 DEF vars, threadVars, typeVars, serverVars
<1>14. QED
  BY <1>1, <1>2, <1>3, <1>4, <1>5, <1>6, <1>7, <1>8, <1>9, <1>10, <1>11, <1>12, <1>13
     DEF Next, SetterNext, ThreadWrites

LEMMA FilterKeptStep == TypeOK /\ FilterKept /\ [Next]_vars => FilterKept'
<1> SUFFICES ASSUME TypeOK, FilterKept, [Next]_vars PROVE FilterKept'
  OBVIOUS
<1> USE DEF FilterKept
<1>1. CASE Connect
  BY <1>1 DEF Connect, filterVars, serverVars
<1>2. ASSUME NEW filter \in Filters, SetFilter(filter)
      PROVE  FilterKept'
  BY <1>2 DEF SetFilter, Writing, threadVars
<1>3. CASE \/ \E type \in Types, enable \in BOOLEAN : SetRequestTypes(type, enable)
           \/ \E device \in Devices : SetApexDeviceFeedback(device)
           \/ AssignDeviceList
  BY <1>3 DEF SetRequestTypes, SetApexDeviceFeedback, AssignDeviceList, threadVars, filterVars,
              serverVars
<1>4. CASE \/ \E streaming \in BOOLEAN : SetStreaming(streaming)
           \/ RequestNextFrame
           \/ AppNext
  BY <1>4 DEF SetStreaming, RequestNextFrame, AppNext, GetFrame, SendPing, WaitTimesOut,
              WriteRequestFrame, threadVars, filterVars, serverVars
<1>5. CASE OnConnect \/ Ends \/ ReadObjectEnums
  BY <1>5 DEF OnConnect, Ends, ReadObjectEnums, Move, filterVars, serverVars
<1>6. CASE WriteObjects
  <2>1. CASE thread' = "haptic"
    <3>1. out'.filter = told.filter
      BY <1>6, <2>1 DEF WriteObjects, TypeOK, Settings
    <3>2. QED
      BY <1>6, <2>1, <3>1 DEF WriteObjects, filterVars
  <2>2. CASE thread' = "reading"
    BY <1>6, <2>2 DEF WriteObjects, filterVars, serverVars
  <2>3. QED
    BY <1>6, <2>1, <2>2 DEF WriteObjects
<1>7. CASE WriteHaptic
  <2>1. out'.filter = out.filter /\ thread' \in {"hapticClear", "filter"}
    BY <1>7 DEF WriteHaptic, TypeOK, Settings
  <2>2. QED
    BY <1>7, <2>1 DEF WriteHaptic, filterVars
<1>8. CASE WriteFilter
  <2>1. out'.filter = m_Filter /\ thread' \in {"pingClear", "flush"}
    BY <1>8 DEF WriteFilter, TypeOK, Settings
  <2>2. QED
    BY <1>8, <2>1 DEF WriteFilter
<1>9. CASE ClearHaptic \/ ClearPing
  BY <1>9 DEF ClearHaptic, ClearPing, Move, filterVars
<1>10. CASE Flush
  BY <1>10 DEF Flush, Move, filterVars
<1>11. CASE ReadFrame
  BY <1>11 DEF ReadFrame, Move, filterVars
<1>12. CASE UNCHANGED vars
  BY <1>12 DEF vars, threadVars, filterVars, serverVars
<1>13. QED
  BY <1>1, <1>2, <1>3, <1>4, <1>5, <1>6, <1>7, <1>8, <1>9, <1>10, <1>11, <1>12
     DEF Next, SetterNext, ThreadWrites

\* However setters fall between the steps of WriteObjects, what they set is told before the flag
\* that says so goes down: types and filter, for any server (SettingsTold).
THEOREM NoSettingLost == Spec => []SettingsTold
<1>1. Init => TypesKept /\ FilterKept
  BY DEF Init, TypesKept, FilterKept, Between, Writing
<1>2. TypesKept /\ FilterKept => SettingsTold
  BY DEF TypesKept, FilterKept, SettingsTold, Between
<1>3. QED
  BY <1>1, <1>2, TypesKeptStep, FilterKeptStep, TypeCorrect, PTL DEF Spec
=============================================================================
