---------------------------- MODULE AudioSource -----------------------------
(***************************************************************************)
(* The audio of the worker as encoder_loop keeps it: WasapiCapture, the    *)
(* source it was started with, audio_failed_, and the setting that the IPC *)
(* thread changes under settings_mutex_.  There is one game process; what  *)
(* is captured is left out.                                                *)
(***************************************************************************)
CONSTANTS
  Sources, \* the sources a client can choose: process or system sound, the microphone
  NoSource \* audio is off

ASSUME AudioAssumption == NoSource \notin Sources

VARIABLES
  audio,  \* running_, the source it was started with, audio_failed_
  setting \* the source that the settings ask for

audioVars == <<audio, setting>>

AudioTypeOK ==
  /\ audio \in [on: BOOLEAN, source: Sources \cup {NoSource}, failed: BOOLEAN]
  /\ setting \in Sources \cup {NoSource}

AudioInit ==
  /\ audio = [on |-> FALSE, source |-> NoSource, failed |-> FALSE]
  /\ setting \in Sources \cup {NoSource}

\* settings_set: the microphone excludes the sound of the game.
ChooseSource(source) == setting' = source /\ UNCHANGED audio

\* Variant: a source that runs is kept.
KeptAlways == audio.on /\ setting # NoSource

\* What runs goes on when it is still the source that is asked for.
Kept == audio.on /\ setting = audio.source

\* A source that could not be started is not tried again, nor is another one.
Wanted(pid) == ~Kept /\ setting # NoSource /\ (audio.on \/ ~audio.failed) /\ pid

\* What encoder_loop does with the audio after a frame; pid: the window has a process.
KeepAudio(pid) ==
  /\ ~Wanted(pid)
  /\ audio' = [audio EXCEPT !.on = Kept]
  /\ UNCHANGED setting

StartAudio(pid) ==
  /\ Wanted(pid)
  /\ audio' = [on |-> TRUE, source |-> setting, failed |-> FALSE]
  /\ UNCHANGED setting

AudioFails(pid) ==
  /\ Wanted(pid)
  /\ audio' = [audio EXCEPT !.on = FALSE, !.failed = TRUE]
  /\ UNCHANGED setting

\* The audio thread ends when its device is gone.
AudioLost == audio.on /\ audio' = [audio EXCEPT !.on = FALSE] /\ UNCHANGED setting

\* recover_pipeline stops it and lets it be tried again.
StopAudio == audio' = [audio EXCEPT !.on = FALSE] /\ UNCHANGED setting
ForgetAudio ==
  /\ audio' = [audio EXCEPT !.source = NoSource, !.failed = FALSE]
  /\ UNCHANGED setting
=============================================================================
