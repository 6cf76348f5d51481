------------------------------- MODULE Toast -------------------------------
(***************************************************************************)
(* The toasts of csc_cmdt.exe: CToastNotificationPlugin in each process    *)
(* that shows one, Windows' registrations of its event handler, and the    *)
(* events, which come on a thread of Windows.  No callback is ever set by  *)
(* this program, so an event changes nothing in the plugin.                *)
(***************************************************************************)
EXTENDS Naturals

CONSTANT Tool   \* processes of csc_cmdt.exe

VARIABLES
  plugin,     \* processes with a CToastNotificationPlugin
  toast,      \* those whose m_comptrToast holds a toast
  tokens,     \* <<process, event>>: the tokens that are not zero
  listening,  \* <<process, event>>: what Windows has registered
  shown       \* processes whose toast is on the screen

toastVars == <<plugin, toast, tokens, listening, shown>>

\* In the order of registration.
Events == <<"Activated", "Dismissed", "Failed">>
Event  == {"Activated", "Dismissed", "Failed"}
UpTo(n) == {Events[i] : i \in 1 .. n}
All(t)  == {t} \X Event

ToastTypeOK ==
  /\ plugin \subseteq Tool /\ toast \subseteq Tool /\ shown \subseteq Tool
  /\ tokens \subseteq Tool \X Event /\ listening \subseteq Tool \X Event

ToastInit ==
  /\ plugin = {} /\ toast = {} /\ shown = {}
  /\ tokens = {} /\ listening = {}

\* Mutant: the toast is let go before its handlers are removed.
BugDropsToast(t) == listening

\* resetToast() removes the handlers whose tokens it has.
Removed(t) == IF t \in toast THEN listening \ (tokens \intersect All(t)) ELSE listening

ResetToast(t) ==
  /\ listening' = Removed(t)
  /\ tokens' = tokens \ All(t)
  /\ toast' = toast \ {t}

NewPlugin(t) == plugin' = plugin \union {t} /\ UNCHANGED <<toast, tokens, listening, shown>>

\* Nothing is touched when the template or its image or the last line of the text cannot
\* be set, or the notifier or the factory is not there.
NotCreated(t) == t \in plugin /\ UNCHANGED toastVars

\* CreateToastNotification() fails, when the previous toast is gone already.
OnlyReset(t) == t \in plugin /\ ResetToast(t) /\ UNCHANGED <<plugin, shown>>

\* The handlers are registered one after the other, up to the first that fails; the
\* toast is shown when all are.
CreateToast(t) ==
  \E n \in 0 .. 3 :
    /\ t \in plugin /\ toast' = toast \union {t}
    /\ listening' = Removed(t) \union ({t} \X UpTo(n))
    /\ tokens' = (tokens \ All(t)) \union ({t} \X UpTo(n))
    /\ shown' \in IF n = 3 THEN {shown, shown \union {t}} ELSE {shown}
    /\ UNCHANGED plugin

SendToastNotification(t) == NotCreated(t) \/ OnlyReset(t) \/ CreateToast(t)

\* Invoke() of the event handler has no callback to call and answers E_FAIL; the toast
\* has left the screen.
Invoke(t, e) ==
  /\ t \in shown /\ <<t, e>> \in listening
  /\ shown' = shown \ {t}
  /\ UNCHANGED <<plugin, toast, tokens, listening>>

DeletePlugin(t) ==
  /\ t \in plugin /\ plugin' = plugin \ {t}
  /\ ResetToast(t)
  /\ UNCHANGED shown

\* Whatever step of createToast() failed, Windows has no registration whose token the
\* plugin has lost: once the plugin is deleted no event can reach its handler.
NoStrayHandler == \A r \in listening : r \in tokens /\ r[1] \in toast \intersect plugin
=============================================================================
