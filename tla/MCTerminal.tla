------------------------------ MODULE MCTerminal ------------------------------
(***************************************************************************)
(* Module Terminal for a few keys from a keyboard, and, because only long  *)
(* sequences of keys wrap the screen and fill the line, the shell alone    *)
(* with any keys at all.                                                   *)
(***************************************************************************)
EXTENDS Terminal

VARIABLE keyboard      \* whether the keys come from a keyboard

MCInit == TerminalInit /\ keyboard \in BOOLEAN

TypedKeys == keyboard /\ TerminalNext /\ UNCHANGED keyboard
AnyKeys   == ~keyboard /\ ShellNext /\ UNCHANGED <<keyboard, vars>>

MCSpec == MCInit /\ [][TypedKeys \/ AnyKeys]_<<keyboard, terminalVars>> /\ Fairness

\* LineFollowsTyping (user_main.c:73-98) where the keys come from the keyboard.
MCLineFollowsTyping == keyboard => LineFollowsTyping

MCPrompt == <<">", " ">>
MCHelp   == <<"h">>
MCClear  == <<"c">>
MCAbout  == <<"h", "c">>

\* A line, a correction, a command.
MCscancode_map == <<"h", "c", Backspace, Newline, "c">>
=============================================================================
