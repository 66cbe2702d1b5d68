---------------------------- MODULE EcsDetector ----------------------------
(***************************************************************************)
(* The detector of breakdeps/AknEcs.cpp, which listens to the keys of a    *)
(* locked phone and lets the Send key call the service number when exactly *)
(* that number has been typed.  The search for emergency numbers is cut out*)
(* of this build, so the service number is the only one that matches.      *)
(*                                                                         *)
(* The queue of keys and the state of the detector change together in the  *)
(* operations below, with two exceptions that the properties have to live  *)
(* with: a buffer set empty leaves the state alone, and a key that is no   *)
(* character stops the key timer and nothing else.                         *)
(***************************************************************************)
EXTENDS Naturals, Sequences

CONSTANTS TypedScanCodes,                  \* scan codes typed, within the valid range
          ServiceNumber,              \* KAknServiceCallNumber
          KAknServiceCallMinLength,
          KAknEcsMaxMatchingLength,   \* room in iCharBuffer
          Buffers,                    \* buffers the application sets
          MaxTyped                    \* bound: keys typed and buffers set

ASSUME LengthAssumption == /\ KAknServiceCallMinLength \in Nat \ {0}
                           /\ KAknEcsMaxMatchingLength \in Nat \ {0}
                           /\ MaxTyped \in Nat

NoCall == <<"no call">>

(* The keyboard layouts whose letter keys stand for digits; the half qwerty*)
(* row tests U twice, so no key of that layout stands for 7.               *)
Qwerty == [Q |-> "1", W |-> "2", E |-> "3", R |-> "4", T |-> "5", Y |-> "6",
           U |-> "7", I |-> "8", O |-> "9", P |-> "0"]
HalfQwerty == [E |-> "1", T |-> "2", U |-> "3", D |-> "4", G |-> "5", J |-> "6",
               B |-> "8", M |-> "9", Space |-> "0"]
Layouts == {Qwerty, HalfQwerty, <<>>}

Convert(layout, key) == IF key \in DOMAIN layout THEN layout[key] ELSE key

Codes == {Convert(layout, key) : layout \in Layouts, key \in TypedScanCodes}

ASSUME BufferAssumption == Buffers \subseteq Seq(Codes) /\ ServiceNumber \in Seq(Codes)

VARIABLES
  iServiceCallEnabled,   \* the feature, read once
  connected,             \* EEventSourceConnected
  iCharBuffer, iMatchPosition,
  iState,
  iKeyTimeoutTimer,      \* the timer runs
  keys,                  \* keys typed and buffers set so far
  dialled,               \* the number called in the last step, or NoCall
  armed,                 \* history: a match was reported, and no call since
  emptied,               \* history: the buffer was set empty in the match state
  stopped                \* history: the last key was no character

queueVars == <<iCharBuffer, iMatchPosition>>
matchHistory == <<armed, emptied, stopped>>
detectorVars == <<iServiceCallEnabled, connected, queueVars, iState, iKeyTimeoutTimer,
                  keys, dialled, matchHistory>>

States == {"ENotFullyConstructed", "EEmpty", "ENoMatch", "EServiceNumMatch",
           "ECompleteMatchThenSendKey"}

DetectorInit ==
  /\ iServiceCallEnabled \in BOOLEAN
  /\ connected = FALSE
  /\ iCharBuffer = <<>> /\ iMatchPosition = 0
  /\ iState = "ENotFullyConstructed"
  /\ iKeyTimeoutTimer = FALSE
  /\ keys = 0 /\ dialled = NoCall
  /\ armed = FALSE /\ emptied = FALSE /\ stopped = FALSE

-----------------------------------------------------------------------------
(* The queue.                                                              *)

CurrentMatch == SubSeq(iCharBuffer, iMatchPosition + 1, Len(iCharBuffer))

\* Mutant: a number matches as soon as the queue ends in it.
IsServiceNumEnds(buffer) ==
  /\ iServiceCallEnabled /\ Len(buffer) >= KAknServiceCallMinLength
  /\ \E i \in 0 .. Len(buffer) : SubSeq(buffer, i + 1, Len(buffer)) = ServiceNumber

IsServiceNum(buffer) ==
  /\ iServiceCallEnabled /\ Len(buffer) >= KAknServiceCallMinLength
  /\ buffer = ServiceNumber

\* UpdateStatus; the service number may be unreadable at the moment.
SetQueue(buffer, match) ==
  /\ match => IsServiceNum(buffer)
  /\ iCharBuffer' = buffer
  /\ iMatchPosition' = IF match THEN 0 ELSE Len(buffer)

ResetQueue == iCharBuffer' = <<>> /\ iMatchPosition' = 0

\* A full queue forgets its oldest key.
Added(code) ==
  Append(IF Len(iCharBuffer) >= KAknEcsMaxMatchingLength THEN Tail(iCharBuffer)
         ELSE iCharBuffer, code)

\* With an empty queue there is no SetState, and the state stays what it was.
DetermineState(buffer, match) ==
  IF buffer = <<>>
  THEN /\ UNCHANGED <<iState, armed>>
       /\ emptied' = (emptied \/ iState = "EServiceNumMatch")
  ELSE /\ iState' = IF match THEN "EServiceNumMatch" ELSE "ENoMatch"
       /\ armed' = match
       /\ emptied' = FALSE

-----------------------------------------------------------------------------
(* The detector.  Keys reach it from the window server's events while it is*)
(* connected, and from the application at any time; End comes as a key that*)
(* is no character.                                                        *)

ConnectToEventSource ==
  /\ connected' \in BOOLEAN /\ ~connected
  /\ UNCHANGED <<iServiceCallEnabled, queueVars, iState, iKeyTimeoutTimer, keys,
                 matchHistory>>
  /\ dialled' = NoCall

CloseEventSource ==
  /\ connected /\ connected' = FALSE
  /\ UNCHANGED <<iServiceCallEnabled, queueVars, iState, iKeyTimeoutTimer, keys,
                 matchHistory>>
  /\ dialled' = NoCall

AddChar(layout, key) ==
  LET buffer == Added(Convert(layout, key))
  IN  /\ keys < MaxTyped /\ keys' = keys + 1
      /\ \E match \in BOOLEAN : SetQueue(buffer, match) /\ DetermineState(buffer, match)
      /\ iKeyTimeoutTimer' = TRUE
      /\ stopped' = FALSE /\ dialled' = NoCall
      /\ UNCHANGED <<iServiceCallEnabled, connected>>

AddInvalidChar ==
  /\ iKeyTimeoutTimer' = FALSE
  /\ stopped' = TRUE /\ dialled' = NoCall
  /\ UNCHANGED <<iServiceCallEnabled, connected, queueVars, iState, keys, armed, emptied>>

\* Mutant: after the call the detector waits for Send again.
AddSendKeyAgain ==
  /\ iKeyTimeoutTimer' = FALSE
  /\ stopped' = TRUE
  /\ IF iServiceCallEnabled /\ iState = "EServiceNumMatch"
     THEN \/ /\ dialled' = CurrentMatch /\ armed' = FALSE
             /\ ResetQueue /\ UNCHANGED iState
          \/ dialled' = NoCall /\ UNCHANGED <<queueVars, armed, iState>>
     ELSE dialled' = NoCall /\ UNCHANGED <<iState, queueVars, armed>>
  /\ UNCHANGED <<iServiceCallEnabled, connected, keys, emptied>>

(* The Send key.  SetState leaves the match state first; MakeServiceCallL  *)
(* may leave before it calls, and then the queue keeps the number.         *)
AddSendKey ==
  /\ iKeyTimeoutTimer' = FALSE
  /\ stopped' = TRUE
  /\ IF iServiceCallEnabled /\ iState = "EServiceNumMatch"
     THEN /\ iState' = "ECompleteMatchThenSendKey"
          /\ \/ /\ dialled' = CurrentMatch /\ armed' = FALSE
                /\ ResetQueue
             \/ dialled' = NoCall /\ UNCHANGED <<queueVars, armed>>
     ELSE dialled' = NoCall /\ UNCHANGED <<iState, queueVars, armed>>
  /\ UNCHANGED <<iServiceCallEnabled, connected, keys, emptied>>

\* Mutant: the timer is not started again.
SetBufferUntimed(newBuffer) ==
  LET length == IF Len(newBuffer) > KAknEcsMaxMatchingLength
                THEN KAknEcsMaxMatchingLength ELSE Len(newBuffer)
      buffer == SubSeq(newBuffer, 1, length)
  IN  /\ keys < MaxTyped /\ keys' = keys + 1
      /\ \E match \in BOOLEAN : SetQueue(buffer, match) /\ DetermineState(buffer, match)
      /\ iKeyTimeoutTimer' = FALSE
      /\ stopped' = FALSE /\ dialled' = NoCall
      /\ UNCHANGED <<iServiceCallEnabled, connected>>

SetBuffer(newBuffer) ==
  LET length == IF Len(newBuffer) > KAknEcsMaxMatchingLength
                THEN KAknEcsMaxMatchingLength ELSE Len(newBuffer)
      buffer == SubSeq(newBuffer, 1, length)
  IN  /\ keys < MaxTyped /\ keys' = keys + 1
      /\ \E match \in BOOLEAN : SetQueue(buffer, match) /\ DetermineState(buffer, match)
      /\ iKeyTimeoutTimer' = (iServiceCallEnabled /\ iState' = "EServiceNumMatch")
      /\ stopped' = FALSE /\ dialled' = NoCall
      /\ UNCHANGED <<iServiceCallEnabled, connected>>

\* Reset: the queue and the state; what calls it deals with the timer.
Reset ==
  /\ ResetQueue
  /\ iState' = "EEmpty"
  /\ armed' = FALSE /\ emptied' = FALSE /\ dialled' = NoCall
  /\ UNCHANGED <<iServiceCallEnabled, connected, keys>>

ApplicationReset == Reset /\ UNCHANGED <<iKeyTimeoutTimer, stopped>>

\* Cancel is pressed: a pointer event while the number matches.
HandlePointerEvent ==
  /\ connected /\ iServiceCallEnabled /\ iState = "EServiceNumMatch"
  /\ Reset
  /\ iKeyTimeoutTimer' = FALSE /\ UNCHANGED stopped

\* The timer's callback.
CancelMatch ==
  /\ iKeyTimeoutTimer
  /\ Reset
  /\ iKeyTimeoutTimer' = FALSE /\ UNCHANGED stopped

DetectorNext ==
  \/ ConnectToEventSource
  \/ CloseEventSource
  \/ \E layout \in Layouts, key \in TypedScanCodes : AddChar(layout, key)
  \/ AddInvalidChar
  \/ AddSendKey
  \/ \E newBuffer \in Buffers : SetBuffer(newBuffer)
  \/ ApplicationReset
  \/ HandlePointerEvent
  \/ CancelMatch

DetectorSpec == DetectorInit /\ [][DetectorNext]_detectorVars

\* A running timer expires, once no more keys restart it.
FairDetectorSpec == DetectorSpec /\ WF_detectorVars(CancelMatch)

-----------------------------------------------------------------------------
(* Every variable keeps its type; the queue never outgrows its buffer, and *)
(* the match starts within it.                                             *)
DetectorTypeOK ==
  /\ iServiceCallEnabled \in BOOLEAN /\ connected \in BOOLEAN
  /\ iCharBuffer \in Seq(Codes)
  /\ Len(iCharBuffer) <= KAknEcsMaxMatchingLength
  /\ iMatchPosition \in 0 .. Len(iCharBuffer)
  /\ iState \in States
  /\ iKeyTimeoutTimer \in BOOLEAN /\ keys \in 0 .. MaxTyped
  /\ armed \in BOOLEAN /\ emptied \in BOOLEAN /\ stopped \in BOOLEAN

(* In the match state the queue is the service number and nothing else,    *)
(* whatever keys, buffers, timeouts and failed calls came before, unless   *)
(* the application has emptied it since; so the Send key calls no number   *)
(* that was not typed.                                                     *)
MatchIsCurrent ==
  iState = "EServiceNumMatch" =>
    /\ iServiceCallEnabled
    /\ IF emptied THEN iCharBuffer = <<>>
       ELSE iCharBuffer = ServiceNumber /\ iMatchPosition = 0

(* The number called is the service number, or none if the application has *)
(* emptied the buffer behind the detector's back; and one match makes one  *)
(* call, however often Send is pressed.                                    *)
CallsServiceNumber ==
  [][dialled' # NoCall =>
       /\ armed
       /\ dialled' = IF emptied THEN <<>> ELSE ServiceNumber]_detectorVars

(* A match does not outlast the key timeout: nobody finds the phone one key*)
(* press away from a call, unless the last key was no character.           *)
MatchEnds ==
  iState = "EServiceNumMatch" ~> (iState # "EServiceNumMatch" \/ stopped)

(* "Timer for timing the timeout between keys" (AknEcs.cpp:455), and "just *)
(* return since it is an invalid character" (AknEcs.cpp:563): so a match   *)
(* ends after the timeout, whatever keys that are no characters were       *)
(* pressed in between.                                                     *)
MatchTimesOut == iState = "EServiceNumMatch" ~> iState # "EServiceNumMatch"
=============================================================================
