------------------------------ MODULE ExpoSender ------------------------------
(***************************************************************************)
(* ExpoSender.send: what became of a push at Expo, and which of the three  *)
(* answers the runner gets for it.                                         *)
(***************************************************************************)

\* What the runner tells apart: (True, _, False), (False, _, False) and
\* (False, _, True).
Reply == {"ok", "error", "unregistered"}

\* What ended the call: nothing was raised, one of the exceptions the code
\* names, another one, or there was no client to call.
Ending == {"nothing", "ConnectionError", "HTTPError", "DeviceNotRegisteredError",
           "other", "no client"}

\* named: the text of the exception says that the device is not registered.
\* landed: Expo accepted the push.
Outcome == [ending : Ending, named : BOOLEAN, landed : BOOLEAN]

\* How Expo and its client end a call.  Only Expo's own ticket ends it without an
\* exception or with DeviceNotRegisteredError, and it tells what became of the
\* push.  Any other exception may be raised after Expo accepted the push, when its
\* answer is lost or unreadable, and its text may be anything.
Endings ==
  {o \in Outcome : /\ o.ending = "nothing" => o.landed /\ ~o.named
                   /\ o.ending = "no client" => ~o.landed /\ ~o.named
                   /\ o.ending = "DeviceNotRegisteredError" => o.named /\ ~o.landed}

Classify(o) ==
  CASE o.ending = "nothing"                                         -> "ok"
    [] o.ending \in {"ConnectionError", "HTTPError", "no client"}   -> "error"
    [] o.ending = "DeviceNotRegisteredError"                        -> "unregistered"
    [] o.ending = "other" /\ o.named                                -> "unregistered"
    [] o.ending = "other" /\ ~o.named                               -> "error"

\* What may come of one call of send.
Answers == {[reply |-> Classify(o), landed |-> o.landed] : o \in Endings}

=============================================================================
