------------------------------ MODULE Evidence ------------------------------
(***************************************************************************)
(* What the plugin makes of the chat: Logic with the punishment command    *)
(* that waits for the server's answer, and the prompts that its actions    *)
(* open.  All of it runs on the thread of the game.  Names, reasons and    *)
(* the text of messages are left out.                                      *)
(***************************************************************************)
EXTENDS Naturals

VARIABLES
  logic,  \* pending_: 0, or the number of the command; late: more than 30 seconds ago;
          \* shown: spectate_prompt_shown_
  prompt, \* g_prompt
  dismiss, \* g_dismiss_prompt
  seen    \* history: commands, those not answered in time, and prompts about commands

evidenceVars == <<logic, prompt, dismiss, seen>>

EvidenceTypeOK ==
  /\ logic \in [pending: Nat, late: BOOLEAN, shown: BOOLEAN]
  /\ prompt \in {"none", "start", "finish", "missing"}
  /\ dismiss \in BOOLEAN
  /\ seen \in [commands: Nat, expired: Nat, prompts: Nat]

EvidenceInit ==
  /\ logic = [pending |-> 0, late |-> FALSE, shown |-> FALSE]
  /\ prompt = "none"
  /\ dismiss = FALSE
  /\ seen = [commands |-> 0, expired |-> 0, prompts |-> 0]

\* on_command: a second command takes the place of the one that waits.
Punish ==
  /\ seen' = [seen EXCEPT !.commands = @ + 1]
  /\ logic' = [logic EXCEPT !.pending = seen.commands + 1, !.late = FALSE]
  /\ UNCHANGED <<prompt, dismiss>>

\* 30 seconds pass.
Expire ==
  /\ logic.pending # 0 /\ ~logic.late
  /\ logic' = [logic EXCEPT !.late = TRUE]
  /\ seen' = [seen EXCEPT !.expired = @ + 1]
  /\ UNCHANGED <<prompt, dismiss>>

\* What confirms_punishment tells apart in a text: that it speaks of an administrator, that
\* it has a phrase of a punishment, and that its beginning or its end has the admin's own name.
Message == [administrator: BOOLEAN, punishment: BOOLEAN, own: BOOLEAN]

Confirms(message) == message.administrator /\ message.punishment /\ message.own

\* Variant: the command waits on.
ConfirmKeeps(recording, message) ==
  /\ logic.pending # 0
  /\ prompt' = IF recording THEN "finish" ELSE "missing"
  /\ seen' = [seen EXCEPT !.prompts = @ + 1]
  /\ UNCHANGED <<logic, dismiss>>

\* on_server_message: any text ends a command that is too late.  A text that confirms may be
\* about another command than the one that waits.
Confirm(recording, message) ==
  /\ logic.pending # 0
  /\ logic.late \/ Confirms(message)
  /\ logic' = [logic EXCEPT !.pending = 0, !.late = FALSE]
  /\ IF logic.late THEN UNCHANGED <<prompt, seen>>
     ELSE /\ prompt' = IF recording THEN "finish" ELSE "missing"
          /\ seen' = [seen EXCEPT !.prompts = @ + 1]
  /\ UNCHANGED dismiss

\* on_spectating_player: only the first time.
Spectate(recording) ==
  /\ ~recording /\ ~logic.shown
  /\ logic' = [logic EXCEPT !.shown = TRUE]
  /\ prompt' = "start"
  /\ UNCHANGED <<dismiss, seen>>

\* The window procedure notes the key; the next frame closes whatever prompt is open then.
Escape == prompt # "none" /\ ~dismiss /\ dismiss' = TRUE /\ UNCHANGED <<logic, prompt, seen>>

ClosePrompt ==
  /\ prompt # "none"
  /\ prompt' = "none"
  /\ dismiss' = FALSE
  /\ UNCHANGED <<logic, seen>>
=============================================================================
