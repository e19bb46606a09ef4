----------------------------- MODULE MCServices -----------------------------
(* Instances of Events, Chat, OfferAnswer, Upnp, Conference and SalCallOp  *)
(* for TLC.                                                                *)
(* They share no state: each behaviour is one of a single component.       *)
EXTENDS Events, Chat, OfferAnswer, Upnp, Conference, SalCallOp

CONSTANTS e1, m1, i1, i2, i3, i4, b1, b2, p1, p2, p3, nil, noPort

\* What a behaviour explores.
VARIABLE focus

Focus == {"events", "messages", "memory", "negotiation", "mappings", "conference", "operation"}

vars == <<ev, msg, room, ids, accepted, neg, nat, conf, sal, focus>>

-----------------------------------------------------------------------------
(* The exchanges                                                           *)

Real(codec, num) == [codec |-> codec, num |-> num, send |-> TRUE]
Event101 == Real("telephone-event", 101)

Line(type, proto, dir, payloads, crypto) ==
  [ type |-> type, proto |-> proto, active |-> TRUE, dir |-> dir, payloads |-> payloads,
    crypto |-> crypto, tag |-> 0 ]

\* setup_encryption_keys()
Keys(owner, suites) ==
  [i \in 1..Len(suites) |-> [suite |-> suites[i], key |-> <<owner, i>>, tag |-> i]]

Exchanges(offers, capabilities, own) ==
  [ offer: offers, caps: capabilities, one: BOOLEAN, own: {own}, reply: {<<>>} ]

Speex == <<Real("speex", 110)>>
Vp8   == <<Real("vp8", 103)>>

\* Directions of the two streams, one of which may not be there or be refused.
Calls(owner) ==
  LET audio == {Line("audio", "avp", dir, Speex, <<>>) : dir \in Dir}
      video == {Line("video", "avp", dir, payloads, <<>>) :
                  dir \in Dir, payloads \in {Vp8, <<Real("h264", 102)>>}}
  IN  {<<a>> : a \in audio} \cup {<<a, v>> : a \in audio, v \in video}

Directions == Exchanges(Calls("caller"), Calls("callee"), TRUE)

\* Codecs of the audio stream, with the numbers and in the order of each side.
CodecsCaller ==
  { <<Real("pcmu", 0), Real("speex", 110), Event101>>, <<Real("speex", 110), Event101>>,
    <<Real("speex", 110), Real("pcmu", 0)>>, <<Event101>> }
CodecsCallee ==
  { <<Real("speex", 97), Real("pcmu", 0), Real("telephone-event", 98)>>,
    <<Real("pcmu", 0), Real("speex", 110)>>, <<Real("telephone-event", 101)>>,
    <<Real("pcma", 8), Event101>> }

Audio(proto, payloads, crypto) == <<Line("audio", proto, "sendrecv", payloads, crypto)>>

Codecs ==
  Exchanges({Audio("avp", c, <<>>) : c \in CodecsCaller},
            {Audio("avp", c, <<>>) : c \in CodecsCallee}, TRUE)

\* The answers of another implementation to the codecs of the caller: with numbers
\* of its own.
Replies ==
  { [ offer |-> Audio("avp", c, <<>>), caps |-> <<>>, one |-> FALSE, own |-> TRUE,
      reply |-> Audio("avp", r, <<>>) ] :
      c \in CodecsCaller \ {<<Event101>>},
      r \in { <<Real("speex", 97)>>, <<Real("speex", 110)>>,
              <<Real("telephone-event", 98), Real("speex", 97)>> } }

\* Lines of other implementations.
Foreign ==
  LET lines == { Line(type, proto, "sendrecv", payloads, <<>>) :
                   type \in {"audio", "video", "other"}, proto \in {"avp", "other"},
                   payloads \in {Speex, Vp8} }
      refused == [Line("audio", "avp", "sendrecv", Speex, <<>>) EXCEPT !.active = FALSE]
      offered == lines \cup {refused}
  IN  Exchanges({<<a, b>> : a \in offered, b \in offered},
                {<<Line("audio", "avp", "sendrecv", Speex, <<>>),
                   Line("video", "avp", "sendrecv", Vp8, <<>>)>>}, FALSE)

\* The suites of each side; the caller may also not encrypt.
Suites == {<<"s1">>, <<"s2">>, <<"s1", "s2">>, <<"s2", "s1">>, <<"s3">>}

Encrypted ==
  Exchanges({Audio("savp", Speex, Keys("caller", s)) : s \in Suites}
              \cup {Audio("avp", Speex, <<>>)},
            {Audio("savp", Speex, Keys("callee", s)) : s \in Suites}, TRUE)

AllExchanges == Directions \cup Codecs \cup Replies \cup Foreign \cup Encrypted

-----------------------------------------------------------------------------
(* The mappings: a transport of the core, or the stream of a call, and the *)
(* fault.                                                                  *)

SlotPorts == [x \in {"sip", "audio"} |-> {noPort, x}]

Router ==
  { <<{"sip"}, FALSE, faults>> : faults \in {{"lost"}, {"dropped"}, {"hurry"}, {"moved"}} }
  \cup { <<{}, TRUE, faults>> : faults \in {{"unsent"}, {"unlocked"}, {"dropped"}} }
  \cup { <<{"sip"}, FALSE, {}>>, <<{}, TRUE, {}>> }

\* The operation of a call, with the faults it meets.
Operations == {{"request", "password"}, {"silent", "closed"}, {"noack"}, {"burst", "untimely"}}

\* Three calls, or two and a fault.
Meeting == {<<{}, Party>>} \cup {<<{f}, {p1, p2}>> : f \in {"held", "refused", "forgotten"}}

-----------------------------------------------------------------------------
Init ==
  /\ focus \in Focus
  /\ EventsInit /\ ChatInit
  /\ IF focus = "negotiation" THEN NegInit
     ELSE neg = [ start |-> CHOOSE x \in Exchange : TRUE, phase |-> "offered",
                  answer |-> <<>>, callee |-> <<>>, caller |-> <<>> ]
  /\ IF focus = "mappings"
     THEN \E r \in Router : UpnpInit(r[3], r[1], r[2]) ELSE UpnpInit({}, {}, FALSE)
  /\ IF focus = "conference" THEN \E p \in Meeting : ConfInit(p[1], p[2])
     ELSE ConfInit({}, {})
  /\ IF focus = "operation" THEN \E faults \in Operations : SalInit(faults) ELSE SalInit({})

EventsStep ==
  /\ focus = "events" /\ EventsNext
  /\ UNCHANGED <<chatVars, neg, nat, conf, sal, focus>>

ChatStep ==
  /\ \/ focus = "messages" /\ (ComposingStep \/ \E m \in Message :
                                 MessageStep(m) \/ FileReceived(m, i1))
     \/ focus = "memory" /\ (ComposingStep \/ \E id \in MsgId : TextReceived(id))
  /\ UNCHANGED <<ev, neg, nat, conf, sal, focus>>

NegStep ==
  /\ focus = "negotiation" /\ NegNext
  /\ UNCHANGED <<ev, chatVars, nat, conf, sal, focus>>

UpnpStep ==
  /\ focus = "mappings" /\ UpnpNext
  /\ UNCHANGED <<ev, chatVars, neg, conf, sal, focus>>

ConferenceStep ==
  /\ focus = "conference" /\ ConfNext
  /\ UNCHANGED <<ev, chatVars, neg, nat, sal, focus>>

SalOpStep ==
  /\ focus = "operation" /\ SalNext
  /\ UNCHANGED <<ev, chatVars, neg, nat, conf, focus>>

Next == EventsStep \/ ChatStep \/ NegStep \/ UpnpStep \/ ConferenceStep \/ SalOpStep

Spec == Init /\ [][Next]_vars
=============================================================================
