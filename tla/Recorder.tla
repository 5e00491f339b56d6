------------------------------ MODULE Recorder ------------------------------
(***************************************************************************)
(* Recording the audio of a post (addPost.dart, _ButtonSectionState), on   *)
(* one visit of the page.  (On a second visit startRecording() always      *)
(* fails: it stops the player, which the first visit has disposed of.)     *)
(*                                                                         *)
(* startRecording() and stopRecording() await one thing after the other    *)
(* and read the field audioRecorder anew after each; the button offers one *)
(* of them, by isRecording, and can be tapped while calls are under way.   *)
(* A FlutterSoundRecorder carries out the calls it gets in their order;    *)
(* whoever made one goes on when the answer reaches him, some time later.  *)
(*                                                                         *)
(* What the page does with the recording is the matter of Publish, whose   *)
(* names differ from those used here: a module can extend both.            *)
(***************************************************************************)
EXTENDS Naturals, Sequences

CONSTANTS
  Starts,       \* bound: the taps on "Record Audio"
  Stops,        \* bound: the taps on "Stop Recording"
  NoRecorder

ASSUME NoRecorderAssumption == NoRecorder \notin Starts \union Stops
ASSUME CallAssumption == Starts \cap Stops = {}

VARIABLES
  visible,        \* the page is shown
  isRecording,
  audioRecorder, \* the recorder of the call that made it, or NoRecorder
  audioPath,
  phase,        \* progress of each call
  recorder,     \* the state of the recorder that each start makes
  requests,     \* what is asked of it: <<what, the call that waits>>
  crossed       \* history: the starts that met another call, or the page's end

recordingPage == <<visible, isRecording, audioRecorder, audioPath>>
recorderVars == <<recordingPage, phase, recorder, requests, crossed>>

(* What a call waits for, and the answers of the recorder.                 *)
Answers == {"stopped", "opened", "started", "closed", "failed"}
Waiting == {"stopping", "player", "asking", "opening", "starting", "closing"} \union Answers
InProgress == {c \in Starts \union Stops : phase[c] \in Waiting}

RecorderTypeOK ==
  /\ visible \in BOOLEAN /\ isRecording \in BOOLEAN
  /\ audioRecorder \in Starts \union {NoRecorder}
  /\ audioPath \in {"none", "recorded", "picked"}
  /\ phase \in [Starts \union Stops -> Waiting \union {"idle", "done"}]
  /\ recorder \in [Starts -> {"none", "open", "recording", "closed"}]
  /\ requests \in [Starts -> Seq({"open", "start", "stop", "close"}
                                   \X (Starts \union Stops \union {NoRecorder}))]
  /\ crossed \subseteq Starts

RecorderInit ==
  /\ visible = TRUE /\ isRecording = FALSE
  /\ audioRecorder = NoRecorder /\ audioPath = "none"
  /\ phase = [c \in Starts \union Stops |-> "idle"]
  /\ recorder = [r \in Starts |-> "none"]
  /\ requests = [r \in Starts |-> <<>>]
  /\ crossed = {}

-----------------------------------------------------------------------------
Ask(r, what, c) == requests' = [requests EXCEPT ![r] = Append(@, <<what, c>>)]
Enter(c, p) == phase' = [phase EXCEPT ![c] = p]

-----------------------------------------------------------------------------
(* The button.                                                             *)
OffersStart == visible /\ ~isRecording
OffersStop == visible /\ isRecording

(* startRecording                                                          *)
TapStart(c) ==
  /\ OffersStart
  /\ phase[c] = "idle"
  /\ crossed' = IF InProgress = {} THEN crossed
                  ELSE crossed \union {c} \union (InProgress \cap Starts)
  /\ IF audioRecorder # NoRecorder
       THEN Enter(c, "stopping") /\ Ask(audioRecorder, "stop", c)
       ELSE Enter(c, "player") /\ UNCHANGED requests
  /\ UNCHANGED <<recordingPage, recorder>>

(* The player is stopped, or that fails.                                   *)
StopPlayer(c) ==
  /\ phase[c] = "player"
  /\ Enter(c, "asking") \/ Enter(c, "done")
  /\ UNCHANGED <<recordingPage, recorder, requests, crossed>>

(* The user denies the microphone, or permits it: a recorder is made.      *)
Deny(c) ==
  /\ phase[c] = "asking"
  /\ Enter(c, "done")
  /\ UNCHANGED <<recordingPage, recorder, requests, crossed>>

Permit(c) ==
  /\ phase[c] = "asking"
  /\ Enter(c, "opening") /\ Ask(c, "open", c)
  /\ audioRecorder' = c
  /\ UNCHANGED <<visible, isRecording, audioPath, recorder, crossed>>

(* stopRecording                                                           *)
TapStop(c) ==
  /\ OffersStop /\ audioRecorder # NoRecorder
  /\ phase[c] = "idle"
  /\ crossed' = crossed \union (InProgress \cap Starts)
  /\ Enter(c, "stopping") /\ Ask(audioRecorder, "stop", c)
  /\ UNCHANGED <<recordingPage, recorder>>

-----------------------------------------------------------------------------
(* The recorder carries out the oldest request, as far as it is open.      *)

Answer(c, a) == IF c = NoRecorder THEN UNCHANGED phase ELSE Enter(c, a)

Carry(r) ==
  /\ requests[r] # <<>>
  /\ requests' = [requests EXCEPT ![r] = Tail(@)]
  /\ LET what == Head(requests[r])[1]
         c == Head(requests[r])[2]
         usable == recorder[r] \in {"open", "recording"}
         Becomes(state) == recorder' = [recorder EXCEPT ![r] = state] IN
       \/ what = "open" /\ Becomes("open") /\ Answer(c, "opened")
       \/ what = "start" /\ usable /\ Becomes("recording") /\ Answer(c, "started")
       \/ what = "stop" /\ usable /\ Becomes("open") /\ Answer(c, "stopped")
       \/ /\ what = "close" /\ Answer(c, "closed")
          /\ Becomes(IF usable THEN "closed" ELSE recorder[r])
       \/ /\ what \in {"open", "start"} \/ (what = "stop" /\ ~usable)
          /\ UNCHANGED recorder /\ Answer(c, "failed")
  /\ UNCHANGED <<recordingPage, crossed>>

-----------------------------------------------------------------------------
(* The answer reaches a call, which goes on.                               *)

(* It asks the recorder that the field holds by now, if there is one.      *)
AskNext(c, what, next) ==
  /\ IF audioRecorder = NoRecorder
       THEN Enter(c, "done") /\ UNCHANGED requests
       ELSE Enter(c, next) /\ Ask(audioRecorder, what, c)
  /\ UNCHANGED <<recordingPage, recorder, crossed>>

(* A start: the recorder before its own has stopped; its own is open, and  *)
(* the one in the field is started ...                                     *)
StoppedForStart(c) ==
  /\ phase[c] = "stopped"
  /\ Enter(c, "player")
  /\ UNCHANGED <<recordingPage, recorder, requests, crossed>>

Opened(c) == phase[c] = "opened" /\ AskNext(c, "start", "starting")

(* mutant: the path of the last recording stays                            *)
StartedKeepsPath(c) ==
  /\ phase[c] = "started" /\ Enter(c, "done")
  /\ isRecording' = TRUE
  /\ UNCHANGED <<visible, audioRecorder, audioPath, recorder, requests, crossed>>

(* mutant: a start that met another call leaves the button as it is        *)
StartedIfAlone(c) ==
  /\ phase[c] = "started" /\ Enter(c, "done")
  /\ audioPath' = "none" /\ isRecording' = (isRecording \/ InProgress = {c})
  /\ UNCHANGED <<visible, audioRecorder, recorder, requests, crossed>>

(* ... or is running, since a while: only now the path is cleared.         *)
Started(c) ==
  /\ phase[c] = "started" /\ Enter(c, "done")
  /\ audioPath' = "none" /\ isRecording' = TRUE
  /\ UNCHANGED <<visible, audioRecorder, recorder, requests, crossed>>

(* A stop: the recorder in the field is closed - and forgotten.            *)
Stopped(c) == phase[c] = "stopped" /\ AskNext(c, "close", "closing")

Closed(c) ==
  /\ phase[c] = "closed" /\ Enter(c, "done")
  /\ audioRecorder' = NoRecorder /\ audioPath' = "recorded" /\ isRecording' = FALSE
  /\ UNCHANGED <<visible, recorder, requests, crossed>>

(* It failed.                                                              *)
Failed(c) ==
  /\ phase[c] = "failed" /\ Enter(c, "done")
  /\ UNCHANGED <<recordingPage, recorder, requests, crossed>>

StartGoesOn(c) == StoppedForStart(c) \/ Opened(c) \/ Started(c) \/ Failed(c)
StopGoesOn(c) == Stopped(c) \/ Closed(c) \/ Failed(c)

-----------------------------------------------------------------------------
(* pickAudioFile, when a file was chosen                                   *)
PickAudioFile ==
  /\ visible
  /\ audioPath' = "picked"
  /\ UNCHANGED <<visible, isRecording, audioRecorder, phase, recorder, requests, crossed>>

(* mutant: the recorder is not closed with the page                        *)
LeaveRunning ==
  /\ visible /\ visible' = FALSE
  /\ audioPath' = "none"
  /\ crossed' = crossed \union (InProgress \cap Starts)
  /\ UNCHANGED <<isRecording, audioRecorder, phase, recorder, requests>>

(* dispose of the page and of its buttons                                  *)
Dispose ==
  /\ visible /\ visible' = FALSE
  /\ audioPath' = "none"
  /\ IF audioRecorder # NoRecorder
       THEN Ask(audioRecorder, "close", NoRecorder) ELSE UNCHANGED requests
  /\ crossed' = crossed \union (InProgress \cap Starts)
  /\ UNCHANGED <<isRecording, audioRecorder, phase, recorder>>

-----------------------------------------------------------------------------
RecorderNext ==
  \/ \E c \in Starts : TapStart(c) \/ StopPlayer(c) \/ Deny(c) \/ Permit(c) \/ StartGoesOn(c)
  \/ \E c \in Stops : TapStop(c) \/ StopGoesOn(c)
  \/ \E r \in Starts : Carry(r)
  \/ PickAudioFile \/ Dispose

(* A recorder carries out what it is asked and answers; nobody has to tap  *)
(* or permit.                                                              *)
RecorderFairness ==
  /\ \A r \in Starts : WF_recorderVars(Carry(r)) /\ WF_recorderVars(StartGoesOn(r))
  /\ \A c \in Stops : WF_recorderVars(StopGoesOn(c))

RecorderSpec == RecorderInit /\ [][RecorderNext]_recorderVars /\ RecorderFairness

-----------------------------------------------------------------------------
(* Properties                                                              *)

Asked(r, what) == \E i \in DOMAIN requests[r] : requests[r][i][1] = what

(* A recorder that runs is the one that the page holds, or is about to be  *)
(* closed, unless its start met another call or the end of the page.       *)
MicrophoneIsHeld ==
  \A r \in Starts : recorder[r] = "recording"
    => (visible /\ audioRecorder = r) \/ Asked(r, "close") \/ r \in crossed

(* The button offers to stop the recorder that the page holds, once no     *)
(* call is under way - however the calls have crossed.                     *)
StopIsOffered ==
  visible /\ InProgress = {} /\ audioRecorder # NoRecorder /\ recorder[audioRecorder] = "recording"
    => isRecording

(* What can be posted is not still being written: no recorder runs when    *)
(* the path names the recording, but one whose start met another call or   *)
(* has not got its answer yet.                                             *)
RecordingIsFinished ==
  audioPath = "recorded"
    => \A r \in Starts : recorder[r] = "recording" => r \in crossed \/ phase[r] = "started"

(* The microphone is released when the page is left.                       *)
MicrophoneIsReleased ==
  ~visible ~> \A r \in Starts : recorder[r] = "recording" => r \in crossed
=============================================================================
