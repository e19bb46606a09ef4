------------------------- MODULE AccountProperties -------------------------
(***************************************************************************)
(* What is to be true of registrations, publications and subscriptions.    *)
(***************************************************************************)
EXTENDS Account

\* A presence we are to publish is published, or is waiting for something that
\* will publish it: a registration failure, an edit, the loss of the network or
\* a change of presence never drops it.  register_failure(), edit(),
\* stop_refreshing(), send_publish() and update() each touch the three fields.
PublishNotForgotten ==
  \A p \in ListedProxies(ac) :
    LET x == ac.px[p]
    IN  x.publish /\ ac.net => x.pubop \/ x.send \/ x.commit \/ x.editing

\* "Progress" is never a place to rest: a REGISTER is unanswered, the refresher
\* will send one, or the next iterate or done() will.  Only an application that
\* has paused the refreshes breaks it.
ProgressIsGoingOn ==
  \A p \in ListedProxies(ac) :
    LET x == ac.px[p]
    IN  x.state = "Progress" /\ x.enabled /\ ac.net /\ ~x.paused
          => x.busy \/ x.refresher = "on" \/ x.commit \/ x.editing

\* Through registrations lost and regained, networks down and up, changes of
\* mind and NOTIFYs in between, the presence of a friend in the list is
\* subscribed to again whenever it may be; the excuses are the cases in which
\* the far end ended it or the code has no retry.
WantedIsRefreshed ==
  \A f \in Friend :
    LET me == ac.fr[f]
    IN  /\ IsListed(ac, f) /\ me.want /\ me.excuse = "none"
        /\ ac.net /\ ac.initial /\ CanSubscribe(ac, f)
        => me.sent \/ me.refresher = "on"

\* A registration that nobody has paused, disabled, removed or is editing is in
\* progress.
InProgress(p) ==
  /\ Listed(p) /\ ac.px[p].state = "Progress" /\ ac.px[p].enabled
  /\ ac.idle /\ ac.net /\ ~ac.px[p].paused /\ ~ac.px[p].editing

\* Once the application leaves it alone, a registration in progress comes to an
\* end, whatever the server answers and however often it is unavailable: the
\* retry that follows "Service unavailable, retrying" fails for good or succeeds.
RegistrationSettles ==
  \A p \in Proxy : InProgress(p) ~> ~InProgress(p)
=============================================================================
