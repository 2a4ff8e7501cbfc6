--------------------------- MODULE DeviceSetting ---------------------------
(***************************************************************************)
(* What audio_conf_set_device promises: mpd.conf is the value mpd reads    *)
(* for device and everything else, and a call sets the one or does         *)
(* nothing.  It does so as long as every call that succeeds has read the   *)
(* whole file; after one that has not, a call that succeeds promises       *)
(* nothing, and one that fails still does nothing.                         *)
(***************************************************************************)
CONSTANTS
  Args,      \* what may be asked for; "" takes the setting out
  Values,    \* what device may be at first
  Contents   \* what the rest of the file may be

VARIABLES
  device,  \* the value mpd reads; "" without one
  rest,    \* the file less its device line
  busy,    \* a call is under way
  asked,   \* its argument
  result,  \* of the last call
  whole    \* no part of the file has taken its place

vars == <<device, rest, busy, asked, result, whole>>

Init ==
  /\ device \in Values /\ rest \in Contents
  /\ busy = FALSE /\ asked = "" /\ result = "none" /\ whole = TRUE

\* A call that is refused at once is over.
Call(arg) ==
  /\ ~busy /\ asked' = arg
  /\ \/ busy' = TRUE /\ result' = "none"
     \/ busy' = FALSE /\ result' = "failed"
  /\ UNCHANGED <<device, rest, whole>>

Succeed ==
  /\ busy /\ busy' = FALSE /\ whole
  /\ device' = asked /\ result' = "ok"
  /\ UNCHANGED <<rest, asked, whole>>

\* What becomes of device and rest is left open.
SucceedInPart ==
  /\ busy /\ busy' = FALSE /\ whole' = FALSE
  /\ result' = "ok" /\ UNCHANGED asked

Fail ==
  /\ busy /\ busy' = FALSE
  /\ result' = "failed"
  /\ UNCHANGED <<device, rest, asked, whole>>

Die ==
  /\ busy /\ busy' = FALSE
  /\ UNCHANGED <<device, rest, asked, result, whole>>

Next == (\E arg \in Args : Call(arg)) \/ Succeed \/ SucceedInPart \/ Fail \/ Die

Spec == Init /\ [][Next]_vars
=============================================================================
