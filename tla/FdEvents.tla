------------------------------- MODULE FdEvents -------------------------------
(***************************************************************************)
(* A descriptor's FdEvent, which holds the callbacks, and what EPollPoller *)
(* knows of it: m_registered and the events asked of epoll.  Callbacks are *)
(* kept as the set of trigger events that have one; epoll_ctl is assumed   *)
(* to succeed.  epoll holds a raw pointer to the FdEvent.                  *)
(***************************************************************************)

TriggerEvent == {"IN", "OUT", "ERROR"}
Unregistered == {"unregistered"}

FdEvent == [callbacks: SUBSET TriggerEvent,
            interest: (SUBSET {"IN", "OUT"}) \cup {Unregistered}]

NewFdEvent == [callbacks |-> {}, interest |-> Unregistered]

Listen(e, trigger) == [e EXCEPT !.callbacks = @ \cup {trigger}]

SetErrorCallback(e) == Listen(e, "ERROR")

Cancel(e, trigger) == [e EXCEPT !.callbacks = @ \ {trigger}]

ClearCallbacks(e) == [e EXCEPT !.callbacks = {}]

IsListening(e, trigger) == trigger \in e.callbacks

\* listenMask: the events that have a callback.
ListenMask(e) == {t \in TriggerEvent : IsListening(e, t)}

\* EPOLLERR and EPOLLHUP are always reported: no need to ask for them.
ToEpollEvents(mask) == mask \cap {"IN", "OUT"}

\* EPollPoller::updateFdEvent: EPOLL_CTL_ADD or EPOLL_CTL_MOD.
UpdateFdEvent(e) == [e EXCEPT !.interest = ToEpollEvents(ListenMask(e))]

\* EPollPoller::removeFdEvent: EPOLL_CTL_DEL of a registered descriptor.
RemoveFdEvent(e) == [e EXCEPT !.interest = Unregistered]

IsRegistered(e) == e.interest # Unregistered

\* What poll may report of a descriptor.
Reports(e, trigger) == IsRegistered(e) /\ trigger \in e.interest \cup {"ERROR"}

\* processEvents calls the handler of a reported event if there is one.
Handles(e, trigger) == Reports(e, trigger) /\ IsListening(e, trigger)
=============================================================================
