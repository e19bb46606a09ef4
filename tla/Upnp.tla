-------------------------------- MODULE Upnp --------------------------------
(***************************************************************************)
(* The port mappings kept on a uPnP router: upnp.c.  It is the one part of *)
(* the core with two threads: the main thread, and the thread of libupnp,  *)
(* which delivers the replies and the changes of the router under the      *)
(* mutex of the context.  An action is a critical section, so the actions  *)
(* of the two threads interleave; the destroyer of the context waits for   *)
(* the replies.                                                            *)
(***************************************************************************)
EXTENDS Naturals, Sequences, FiniteSets, SequencesExt, Bags

CONSTANTS Binding,               \* the objects UpnpPortBinding
          NoBinding,             \* NULL
          SipSlot, CallSlot,     \* the pointers to a binding: of the core, of a session
          PortsOf,               \* the local ports a slot may want; NoPort is 0 in the code
          NoPort,
          Outside,               \* the external ports a random choice may give
          MaxRetry,              \* UPNP_ADD_MAX_RETRY and UPNP_REMOVE_MAX_RETRY
          MaxContexts, MaxLosses,  \* bounds: the contexts, the losses of the router, and the
          MaxPending             \* list of pending bindings when something else is begun

Slot == SipSlot \cup CallSlot

ASSUME UpnpAssumption ==
  /\ NoBinding \notin Binding /\ SipSlot \cap CallSlot = {}
  /\ IsFiniteSet(Binding) /\ IsFiniteSet(Slot)
  /\ MaxRetry \in Nat \ {0} /\ {MaxContexts, MaxLosses, MaxPending} \subseteq Nat
  /\ \A a, b \in Slot : a # b => PortsOf[a] \cap PortsOf[b] \subseteq {NoPort}

VARIABLE nat

\* What the environment may do besides: the connection of the router is lost,
\* a request cannot be sent, a port is given up or changed while the session
\* goes on, the local address changes, a port is wanted otherwise before the
\* last wish was carried out, and the replies come while a session is destroyed.
UpnpFaults == {"lost", "unsent", "dropped", "moved", "hurry", "unlocked"}

\* External port -1: any.  "same": the number of the local port.
AnyExt == "any"
Ext    == Outside \cup {"same"}

\* lost counts the references whose pointer was set to NULL without a release.
FreeBinding ==
  [ used |-> FALSE, state |-> "idle", port |-> NoPort, ext |-> AnyExt, retry |-> 0,
    ref |-> 0, lost |-> 0, toRemove |-> FALSE, toAdd |-> FALSE ]

\* transports: the slots of linphone_core_get_sip_transports(); calls: whether the
\* user makes calls; link: the context and its state; wait: where the main thread is in
\* linphone_upnp_context_destroy(); seen: the states it read in
\* linphone_upnp_session_destroy(); call: what the session is needed for;
\* mapped: the mappings the router has; file, adding, removing: what the
\* configuration says of them; gaveUp: keys whose removal was abandoned.
UpnpInit(faults, transports, calls) ==
  nat = [ faults |-> faults, transports |-> transports, calls |-> calls, link |-> "none", contexts |-> 0, losses |-> 0, wait |-> "no",
          bind |-> [b \in Binding |-> FreeBinding], at |-> [x \in Slot |-> NoBinding],
          pending |-> <<>>, flight |-> EmptyBag, mapped |-> {}, file |-> {}, adding |-> {},
          removing |-> {}, gaveUp |-> {}, call |-> "none", session |-> "none",
          seen |-> <<>> ]

-----------------------------------------------------------------------------
(* Bindings and their references                                           *)

Unallocated(s)  == {b \in Binding : ~s.bind[b].used}
Attached(s)     == {s.at[x] : x \in Slot} \ {NoBinding}
KeyOf(x)        == <<x.port, x.ext>>

Retain(s, b)  == [s EXCEPT !.bind[b].ref = @ + 1]
Release(s, b) ==
  IF s.bind[b].ref = 1 THEN [s EXCEPT !.bind[b] = FreeBinding]
  ELSE [s EXCEPT !.bind[b].ref = @ - 1]

\* linphone_upnp_port_binding_new_with_parameters()
NewBinding(port, ext, state) ==
  [FreeBinding EXCEPT !.used = TRUE, !.port = port, !.ext = ext, !.state = state, !.ref = 1]

\* A pending binding of the port, the first in the list; the external port is
\* any, so only the local one counts.
PendingFor(s, port) == SelectInSeq(s.pending, LAMBDA b : s.bind[b].port = port)

\* Mutant: a pending binding is never taken over.
NeverCollect(s, x, port) ==
  LET b == CHOOSE c \in Unallocated(s) : TRUE
  IN  [s EXCEPT !.bind[b] = NewBinding(port, "same", "idle"), !.at[x] = b]

\* linphone_upnp_port_binding_new_or_collect(): a binding that only its request
\* still holds is taken over.
NewOrCollect(s, x, port) ==
  LET i == PendingFor(s, port)
      b == CHOOSE c \in Unallocated(s) : TRUE
  IN  IF i # 0 /\ s.bind[s.pending[i]].ref = 1
      THEN [Retain(s, s.pending[i]) EXCEPT !.at[x] = s.pending[i]]
      ELSE [s EXCEPT !.bind[b] = NewBinding(port, "same", "idle"), !.at[x] = b]

-----------------------------------------------------------------------------
(* Requests to the router.  e is what the environment does: e.sent, the    *)
(* library takes the request; e.ext, the random external port.             *)

Env(s) == [sent: IF "unsent" \in s.faults THEN BOOLEAN ELSE {TRUE}, ext: Outside]

\* Mutant: the cookie holds no reference.
RequestUnheld(s, b, op, e) ==
  LET x == s.bind[b]
      y == [x EXCEPT !.retry = @ + 1, !.ext = IF @ = AnyExt THEN e.ext ELSE @,
                     !.state = IF e.sent THEN @ ELSE "ko"]
  IN  [s EXCEPT !.bind[b] = y, !.pending = Append(@, b),
                !.flight = IF e.sent THEN @ (+) SetToBag({[b |-> b, op |-> op, ext |-> y.ext]}) ELSE @]

\* The end of both send functions: the retries are counted, and what could not
\* be sent stays in the list of pending bindings.
Request(s, b, op, e) ==
  LET x == s.bind[b]
      y == [x EXCEPT !.retry = @ + 1, !.ext = IF @ = AnyExt THEN e.ext ELSE @,
                     !.ref = @ + 1, !.state = IF e.sent THEN @ ELSE "ko"]
  IN  IF x.retry >= MaxRetry THEN [s EXCEPT !.bind[b].state = "ko"]
      ELSE [s EXCEPT !.bind[b] = y, !.pending = Append(@, b),
                     !.flight = IF e.sent THEN @ (+) SetToBag({[b |-> b, op |-> op, ext |-> y.ext]})
                                ELSE @]

\* linphone_upnp_context_send_add_port_binding()
SendAdd(s, b, retry, e) ==
  LET x == s.bind[b]
      t == IF x.state = "adding" THEN s ELSE [s EXCEPT !.bind[b].toRemove = FALSE]
      starts == x.state \in {"idle", "ko"}
  IN  CASE s.link # "ok" -> s
        [] s.link = "ok" /\ x.state = "removing" -> [t EXCEPT !.bind[b].toAdd = TRUE]
        [] s.link = "ok" /\ starts ->
             Request([t EXCEPT !.bind[b].retry = 0, !.bind[b].state = "adding"], b, "add", e)
        [] s.link = "ok" /\ x.state = "adding" /\ (x.retry = 0 \/ retry) ->
             Request(s, b, "add", e)
        [] OTHER -> t

\* linphone_upnp_context_send_remove_port_binding(); found is the state it reads,
\* which may be old when the mutex is not held.
RemoveFound(s, b, retry, e, found) ==
  LET x == s.bind[b]
      t == IF found = "removing" THEN s ELSE [s EXCEPT !.bind[b].toAdd = FALSE]
  IN  CASE s.link # "ok" -> s
        [] s.link = "ok" /\ found = "adding" -> [t EXCEPT !.bind[b].toRemove = TRUE]
        [] s.link = "ok" /\ found = "ok" ->
             Request([t EXCEPT !.bind[b].retry = 0, !.bind[b].state = "removing"],
                     b, "remove", e)
        [] s.link = "ok" /\ found = "removing" /\ (x.retry = 0 \/ retry) ->
             Request(s, b, "remove", e)
        [] OTHER -> t

SendRemove(s, b, retry, e) == RemoveFound(s, b, retry, e, s.bind[b].state)

\* Its result, in the state where a removal failed and is tried again.
RemoveRefused(s, b, e) ==
  \/ s.link # "ok"
  \/ s.bind[b].state = "removing" /\ (s.bind[b].retry >= MaxRetry \/ ~e.sent)
  \/ s.bind[b].state = "ok" /\ ~e.sent

-----------------------------------------------------------------------------
(* The section "uPnP" of the configuration, written by the main thread     *)

\* linphone_upnp_config_add_port_binding() and its counterpart: the two lists
\* cancel each other.
ConfigAdd(s, key) ==
  IF key \in s.removing THEN [s EXCEPT !.removing = @ \ {key}]
  ELSE [s EXCEPT !.adding = @ \cup {key}]

ConfigRemove(s, key) ==
  IF key \in s.adding THEN [s EXCEPT !.adding = @ \ {key}]
  ELSE [s EXCEPT !.removing = @ \cup {key}]

\* Mutant: the additions are thrown away.
LoseConfig(s) == [s EXCEPT !.file = @ \ s.removing, !.adding = {}, !.removing = {}]

\* linphone_upnp_update_config()
UpdateConfig(s) ==
  [s EXCEPT !.file = (@ \cup s.adding) \ s.removing, !.adding = {}, !.removing = {}]

-----------------------------------------------------------------------------
(* The thread of libupnp: linphone_upnp_igd_callback()                     *)

\* What the configuration says is mapped, and no slot wants, is removed.
ForgetOld(s, key, e) ==
  LET owners == {b \in Attached(s) : s.bind[b].port = key[1]
                                     /\ s.bind[b].ext \in {AnyExt, key[2]}}
      b == CHOOSE c \in owners : TRUE
      old == CHOOSE c \in Unallocated(s) : TRUE
  IN  CASE owners = {} ->
             Release(SendRemove([s EXCEPT !.bind[old] = NewBinding(key[1], key[2], "ok")],
                                old, TRUE, e), old)
        [] owners # {} /\ s.bind[b].state = "idle" -> [s EXCEPT !.bind[b].state = "ok"]
        [] OTHER -> s

ForgetAll(s, keys, e) == FoldLeft(LAMBDA t, key : ForgetOld(t, key, e), s, keys)

RenewAll(s, bindings, e) ==
  FoldLeft(LAMBDA t, b : SendAdd(SendRemove(t, b, TRUE, e), b, TRUE, e), s, bindings)

\* linphone_upnp_update(): every mapping is removed and added again.
UpdateMappings(s, e) ==
  RenewAll(ForgetAll(s, SetToSeq(s.file), e), SetToSeq(Attached(s)), e)

\* Mutant: the waiter is not woken.
NoSignal(s) == s

\* The end of the callback.
Signal(s) == IF s.pending = <<>> /\ s.wait = "waits" THEN [s EXCEPT !.wait = "woken"] ELSE s

\* A device, an address or a connection comes, goes or changes.
DeviceChanged(link, e) ==
  /\ nat.link # "none" /\ link # nat.link
  /\ nat.link = "ok" => "lost" \in nat.faults /\ nat.losses < MaxLosses
  /\ link = "ok" => Cardinality(nat.file) <= Cardinality(Unallocated(nat))
                      /\ Len(nat.pending) <= MaxPending
  /\ LET s == [nat EXCEPT !.link = link, !.losses = IF nat.link = "ok" THEN @ + 1 ELSE @]
     IN  nat' = Signal(IF link = "ok" THEN UpdateMappings(s, e) ELSE s)

\* Mutant: what was refused is not tried again.
RepliedOnce(s, r, ok, e) ==
  LET x == s.bind[r.b]
      key == <<x.port, r.ext>>
  IN  CASE r.op = "add" /\ ok ->
             ConfigAdd([s EXCEPT !.bind[r.b].ext = r.ext, !.bind[r.b].state = "ok",
                                 !.mapped = @ \cup {key}], key)
        [] r.op = "remove" /\ ok ->
             ConfigRemove([s EXCEPT !.bind[r.b].state = "idle", !.mapped = @ \ {key}], KeyOf(x))
        [] OTHER -> s

\* What the router did, and the state of the binding.
Replied(s, r, ok, e) ==
  LET x == s.bind[r.b]
      key == <<x.port, r.ext>>
      again == SendRemove(s, r.b, TRUE, e)
  IN  CASE r.op = "add" /\ ok ->
             ConfigAdd([s EXCEPT !.bind[r.b].ext = r.ext, !.bind[r.b].state = "ok",
                                 !.mapped = @ \cup {key}], key)
        [] r.op = "add" /\ ~ok -> SendAdd([s EXCEPT !.bind[r.b].ext = AnyExt], r.b, TRUE, e)
        [] r.op = "remove" /\ ok ->
             ConfigRemove([s EXCEPT !.bind[r.b].state = "idle", !.mapped = @ \ {key}], KeyOf(x))
        [] OTHER ->
             IF RemoveRefused(s, r.b, e)
             THEN ConfigRemove([again EXCEPT !.gaveUp = @ \cup {key}], KeyOf(x)) ELSE again

\* What was asked for while the request was on its way.
Delayed(s, b, e) ==
  LET x == s.bind[b]
      cleared == [s EXCEPT !.bind[b].toRemove = FALSE]
      t == CASE x.toRemove /\ x.state = "ok" -> SendRemove(cleared, b, FALSE, e)
             [] x.toRemove /\ x.state = "ko" -> cleared
             [] OTHER -> s
      y == t.bind[b]
  IN  IF y.toAdd /\ y.state \in {"idle", "ko"}
      THEN SendAdd([t EXCEPT !.bind[b].toAdd = FALSE], b, FALSE, e) ELSE t

Reply(r, ok, e) ==
  /\ BagIn(r, nat.flight)
  /\ LET s == Replied([nat EXCEPT !.flight = @ (-) SetToBag({r})], r, ok, e)
         t == Delayed(s, r.b, e)
     IN  nat' = Signal(Release([t EXCEPT !.pending = RemoveFirst(@, r.b)], r.b))

-----------------------------------------------------------------------------
(* The main thread                                                         *)

MainRuns == nat.wait = "no" /\ nat.seen = <<>>

\* linphone_upnp_context_new()
NewContext ==
  /\ MainRuns /\ nat.link = "none" /\ nat.contexts < MaxContexts
  /\ nat' = [nat EXCEPT !.link = "pending", !.contexts = @ + 1]

\* The pointer is set to NULL; the reference is not released.
Drop(s, x, e) ==
  LET t == SendRemove(s, s.at[x], FALSE, e)
  IN  [t EXCEPT !.at[x] = NoBinding, !.bind[s.at[x]].lost = @ + 1]

\* linphone_upnp_update_port_binding(); due: the last update is old enough, as it
\* is for a binding that was just created; of one collected it stands for the retry
\* delay unless "hurry".
UpdatePort(s, x, port, moved, due, e) ==
  LET old == s.at[x]
      t == IF old # NoBinding /\ s.bind[old].port # port THEN Drop(s, x, e) ELSE s
      isNew == t.at[x] = NoBinding
      u == IF isNew THEN NewOrCollect(t, x, port) ELSE t
      b == u.at[x]
      v == IF moved THEN SendRemove(u, b, FALSE, e) ELSE u
      sends == due \/ (isNew /\ (b \in Unallocated(t) \/ "hurry" \notin s.faults))
  IN  CASE port = NoPort -> t
        [] port # NoPort /\ sends -> SendAdd(v, b, FALSE, e)
        [] OTHER -> v

\* A second thought: the port is wanted again before its removal was carried out,
\* or not any more before it was added again.
Wanted(s, x) ==
  LET b == s.at[x]
      again(p) == \E c \in Binding : s.bind[c].port = p /\ s.bind[c].toRemove
      gone(p)  == b # NoBinding /\ s.bind[b].port # p
  IN  {p \in PortsOf[x] :
         /\ x \in SipSlot \ s.transports => p = NoPort
         /\ gone(p) => "dropped" \in s.faults
         /\ (p # NoPort /\ again(p)) \/ (gone(p) /\ s.bind[b].toAdd) => "hurry" \in s.faults}

Leaves(s, slots) ==
  \A x \in slots : s.at[x] # NoBinding /\ s.bind[s.at[x]].toAdd => "hurry" \in s.faults

UpdateEach(s, slots, port, moved, due, e) ==
  FoldLeft(LAMBDA t, x : UpdatePort(t, x, port[x], moved, due, e), s, slots)

UpdateSlots(s, slots, port, moved, due, e) ==
  UpdateEach(s, SetToSeq(slots), port, moved, due, e)

Wishes(slots) ==
  { port \in [slots -> UNION {PortsOf[x] : x \in slots}] :
      \A x \in slots : port[x] \in Wanted(nat, x) }

Room(slots) ==
  /\ Cardinality(slots) <= Cardinality(Unallocated(nat))
  /\ Len(nat.pending) <= MaxPending

Moved == IF "moved" \in nat.faults THEN BOOLEAN ELSE {FALSE}

RemoveAll(s, bindings, e) == FoldLeft(LAMBDA t, b : SendRemove(t, b, TRUE, e), s, bindings)

\* The pointer of a slot is released.
Detach(s, x) == Release([s EXCEPT !.at[x] = NoBinding], s.at[x])

DetachAll(s, slots)   == FoldLeft(Detach, s, slots)
ReleaseAll(s, places) == FoldLeft(Release, s, places)

Held(s, slots) == SetToSeq({x \in slots : s.at[x] # NoBinding})

\* linphone_core_upnp_hook(), at each turn of linphone_core_iterate()
Hook(port, moved, due, e) ==
  /\ MainRuns /\ nat.link # "none" /\ Room(SipSlot)
  /\ LET s == IF nat.link = "ok" THEN UpdateSlots(nat, SipSlot, port, moved, due, e) ELSE nat
     IN  nat' = UpdateConfig(s)

\* linphone_upnp_context_destroy(), up to the wait.
DestroyContext(reachable, e) ==
  /\ MainRuns /\ nat.link # "none" /\ Leaves(nat, SipSlot)
  /\ LET s == IF reachable
              THEN RemoveAll(nat, SetToSeq({nat.at[x] : x \in SipSlot} \ {NoBinding}), e)
              ELSE nat
     IN  nat' = [s EXCEPT !.wait = IF s.pending = <<>> THEN "woken" ELSE "waits"]

\* After it: upnp_igd_destroy() ends the other thread, and everything is released.
ContextGone ==
  /\ nat.wait = "woken"
  /\ LET s == DetachAll(UpdateConfig(nat), Held(nat, SipSlot))
         t == ReleaseAll(s, s.pending)
     IN  nat' = [t EXCEPT !.wait = "no", !.link = "none", !.pending = <<>>,
                          !.flight = EmptyBag]

-----------------------------------------------------------------------------
(* The session of a call                                                   *)

\* linphone_upnp_update_stream_state() and the state of the session, which is
\* that of all the bindings of both streams.
SessionState(s) ==
  LET states == {s.bind[s.at[x]].state : x \in {y \in CallSlot : s.at[y] # NoBinding}}
  IN  CASE states \cap {"adding", "removing"} # {} -> "pending"
        [] states \subseteq {"ok", "idle"} -> "ok"
        [] OTHER -> "ko"

\* The steps a call can be in when it waits for its mappings.
Waits == {"incoming", "outgoing", "updating"}

\* linphone_upnp_call_process(), in the context of the caller and at each turn.
\* An INVITE is only sent when the mappings are there.
Process(s) ==
  LET new == SessionState(s)
      goesOn == s.session \notin {"ok", "ko"} /\ new \in {"ok", "ko"}
                /\ (s.call = "outgoing" => new = "ok")
  IN  IF s.link # "ok" \/ s.session = "none" THEN s
      ELSE [s EXCEPT !.session = new,
                     !.call = IF goesOn /\ s.call \in Waits THEN "runs" ELSE @]

RemoveEach(s, slots, e, seen) ==
  FoldLeft(LAMBDA t, x : RemoveFound(t, t.at[x], TRUE, e, seen[x]), s, slots)

\* linphone_upnp_session_destroy(); seen are the states its send functions read.
DestroySession(s, seen, e) ==
  LET held == Held(s, CallSlot)
      t == IF s.link = "none" THEN s ELSE RemoveEach(s, held, e, seen)
  IN  [DetachAll(t, held) EXCEPT !.session = "none", !.seen = <<>>]

Found(s) == [x \in CallSlot |-> IF s.at[x] = NoBinding THEN "idle" ELSE s.bind[s.at[x]].state]

\* linphone_core_update_upnp_audio_video(); without a router the caller deletes
\* the session and goes on.
UpdateSession(s, call, port, moved, due, e) ==
  IF s.link # "ok" THEN [DestroySession(s, Found(s), e) EXCEPT !.call = "runs"]
  ELSE Process([UpdateSlots(s, CallSlot, port, moved, due, e) EXCEPT !.call = call])

\* linphone_call_new_outgoing() and linphone_call_new_incoming(); an update of
\* either side, which adds or removes a stream.
StartCall(call, port, e) ==
  /\ MainRuns /\ nat.calls /\ nat.call = "none" /\ Room(CallSlot)
  /\ nat' = UpdateSession([nat EXCEPT !.session = "idle"], call, port, FALSE, FALSE, e)

\* The update is held back when there is a binding to add.  That the reply to a removal
\* may process a call already Updating once more is left out.
UpdateCall(call, port, moved, due, e) ==
  /\ MainRuns /\ nat.call = "runs" /\ nat.session # "none" /\ Room(CallSlot)
  /\ LET added == \E x \in CallSlot : nat.at[x] = NoBinding /\ port[x] # NoPort
     IN  nat' = UpdateSession(nat, IF added THEN call ELSE "runs", port, moved, due, e)

\* linphone_call_background_tasks()
Background ==
  /\ MainRuns /\ nat.call # "none"
  /\ nat' = Process(nat)

\* linphone_core_iterate() does not wait for ever before it sends an INVITE.
DelayedTimeout(e) ==
  /\ MainRuns /\ nat.call = "outgoing" /\ Leaves(nat, CallSlot)
  /\ nat' = [DestroySession(nat, Found(nat), e) EXCEPT !.call = "runs"]

\* linphone_call_delete_upnp_session() when the call ends.  The mutex is not
\* taken: a reply may come between what is read and what is done.
EndCall(e) ==
  /\ MainRuns /\ nat.call # "none" /\ Leaves(nat, CallSlot)
  /\ nat' = [DestroySession(nat, Found(nat), e) EXCEPT !.call = "none"]

SessionSeen ==
  /\ MainRuns /\ nat.session # "none" /\ Leaves(nat, CallSlot) /\ "unlocked" \in nat.faults
  /\ nat' = [nat EXCEPT !.seen = Found(nat)]

SessionGone(e) ==
  /\ nat.seen # <<>>
  /\ nat' = [DestroySession(nat, nat.seen, e) EXCEPT !.call = "none"]

-----------------------------------------------------------------------------
LibraryThread ==
  \E e \in Env(nat) :
    \/ \E link \in {"pending", "down", "ok"} : DeviceChanged(link, e)
    \/ \E r \in BagToSet(nat.flight), ok \in BOOLEAN : Reply(r, ok, e)

MainThread ==
  \/ NewContext \/ ContextGone \/ Background \/ SessionSeen
  \/ \E e \in Env(nat) :
       \/ DelayedTimeout(e) \/ EndCall(e) \/ SessionGone(e)
       \/ \E reachable \in BOOLEAN : DestroyContext(reachable, e)
       \/ \E port \in Wishes(SipSlot), moved \in Moved, due \in BOOLEAN :
            Hook(port, moved, due, e)
       \/ \E port \in Wishes(CallSlot), call \in Waits :
            \/ call \in {"incoming", "outgoing"} /\ StartCall(call, port, e)
            \/ \E moved \in Moved, due \in BOOLEAN :
                 call = "updating" /\ UpdateCall(call, port, moved, due, e)

UpnpNext == LibraryThread \/ MainThread

-----------------------------------------------------------------------------
(* Properties                                                              *)

Pendings(b) == Cardinality({i \in DOMAIN nat.pending : nat.pending[i] = b})

\* The references of a binding (linphone_upnp_port_binding_retain() and
\* _release(), called by both threads) are those of its slot, of the list of
\* pending bindings, and of pointers that were dropped; so no slot, list or reply
\* points to a binding that was freed.
BindingsAreCounted ==
  /\ \A b \in Binding :
       nat.bind[b].ref = Cardinality({x \in Slot : nat.at[x] = b}) + Pendings(b)
                         + nat.bind[b].lost
  /\ \A r \in BagToSet(nat.flight) : nat.bind[r.b].used

\* linphone_upnp_context_destroy() waits without a timeout and without reading
\* the list again: as long as it waits, each pending binding has a reply to come,
\* the last of which wakes it.
DestroyerIsWoken ==
  nat.wait = "waits" /\ "unsent" \notin nat.faults =>
    /\ nat.pending # <<>>
    /\ \A b \in Binding :
         Pendings(b) = Cardinality({p \in BagToSet(nat.flight) \X (1..Len(nat.pending)) :
                                      p[1].b = b /\ p[2] <= nat.flight[p[1]]})

\* A mapping of the router is in the section "uPnP" of the configuration, or about
\* to be written there (linphone_upnp_config_add_port_binding() and _remove_), so
\* that the next session removes it; unless its removal was given up.
MappingIsRemembered ==
  nat.faults \subseteq {"unsent"} =>
    nat.mapped \subseteq nat.gaveUp \cup ((nat.file \cup nat.adding) \ nat.removing)

\* When the replies are there, what linphone_upnp_update_port_binding() was last
\* asked for is what the router does: a binding of a slot is mapped or was given
\* up, and no mapping is left that no slot wants.
WishIsFollowed ==
  nat.faults \subseteq {"unsent"} /\ nat.link = "ok" /\ nat.wait = "no"
    /\ nat.pending = <<>> =>
    /\ \A b \in Attached(nat) :
         /\ nat.bind[b].state \in {"ok", "ko"}
         /\ nat.bind[b].state = "ok" => KeyOf(nat.bind[b]) \in nat.mapped
    /\ \A key \in nat.mapped \ nat.gaveUp :
         \E b \in Attached(nat) : KeyOf(nat.bind[b]) = key /\ nat.bind[b].state = "ok"

\* A call that waits for its mappings (linphone_upnp_call_process()) goes on: a
\* reply is awaited, or the session has just settled; only the INVITE has a timer.
HeldCallGoesOn ==
  nat.faults \subseteq {"dropped"} /\ nat.call \in Waits \ {"outgoing"}
    /\ nat.link = "ok" =>
    /\ nat.session \in {"idle", "pending"}
    /\ \/ SessionState(nat) # "pending"
       \/ \E x \in CallSlot : nat.at[x] # NoBinding /\ Pendings(nat.at[x]) > 0
=============================================================================
