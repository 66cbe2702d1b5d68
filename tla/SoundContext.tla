---------------------------- MODULE SoundContext ----------------------------
(***************************************************************************)
(* What the key sound server promises about the sound context.  At any     *)
(* time at most one client, the foreground client, decides which sound map *)
(* a key press plays from.  A foreground client may lock the context, and  *)
(* while the context is locked nobody else becomes the foreground client.  *)
(* A locked context has an owner that is still connected, so it can always *)
(* be released.                                                            *)
(***************************************************************************)

CONSTANTS Clients, NoClient

VARIABLES foreground,   \* the client whose sounds are played, or NoClient
          locked        \* may the foreground client be replaced?

vars == <<foreground, locked>>

Init == foreground = NoClient /\ locked = FALSE

BringToForeground(c) == ~locked /\ foreground' = c /\ UNCHANGED locked

Lock == foreground # NoClient /\ locked' = TRUE /\ UNCHANGED foreground

Release == locked' = FALSE /\ UNCHANGED foreground

\* The foreground client goes away and takes the lock with it.
Leave == foreground' = NoClient /\ locked' = FALSE

Next == \/ \E c \in Clients : BringToForeground(c)
        \/ Lock
        \/ Release
        \/ Leave

Spec == Init /\ [][Next]_vars
=============================================================================
