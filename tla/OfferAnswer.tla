---------------------------- MODULE OfferAnswer ----------------------------
(***************************************************************************)
(* The SDP offer/answer procedure: what the callee answers, the streams    *)
(* each side then runs, and their keys.  offeranswer.c, sdp_process() of   *)
(* sal_op_call.c, and the choice of the keys in linphonecall.c.            *)
(***************************************************************************)
EXTENDS CallStates, SequencesExt

\* What one exchange starts from: [offer, caps, one, own, reply].  offer and caps,
\* the description of the callee, are sequences of streams; one: the configuration
\* only_one_codec; own: the offer comes from this program, which reads the answer;
\* reply: what another implementation answers, or <<>>.
CONSTANT Exchange

VARIABLE neg

\* A stream: [type, proto, active, dir, payloads, crypto, tag].  A payload is
\* [codec, num, send], an element of crypto [suite, key, tag]; tag is
\* crypto_local_tag, 0 when no key is chosen.
Secure(stream) == stream.proto = "savp"

NegInit ==
  \E x \in Exchange :
    neg = [ start |-> x, phase |-> "offered", answer |-> <<>>, callee |-> <<>>,
            caller |-> <<>> ]

-----------------------------------------------------------------------------
(* Codecs                                                                  *)

IsEvent(p) == p.codec = "telephone-event"

\* only_telephone_event(): of an empty list too.
OnlyEvents(payloads) == \A p \in Range(payloads) : IsEvent(p)

\* find_payload_type_best_match(): the codec is all that its matcher compares.
BestMatch(local, p) == SelectInSeq(local, LAMBDA q : q.codec = p.codec)

\* The payloads of the far end that are matched: with one, no second real codec.
Matched(local, remote, one) ==
  LET Add(res, p) ==
        IF BestMatch(local, p) = 0 \/ (one /\ ~IsEvent(p) /\ ~OnlyEvents(res)) THEN res
        ELSE Append(res, [p EXCEPT !.send = TRUE])
  IN  FoldLeft(Add, <<>>, remote)

\* Mutant: the answer has our numbers.
WithLocalNumbers(local, remote, one) ==
  LET found == Matched(local, remote, one)
  IN  [i \in 1..Len(found) |-> local[BestMatch(local, found[i])]]

\* match_payloads(), of an offer: with the numbers of the far end.
PayloadsOfOffer(local, remote, one) == Matched(local, remote, one)

\* Mutant: an answer is received with its own numbers only.
TheirNumbersOnly(local, remote) ==
  LET found == Matched(local, remote, FALSE)
      others == SelectSeq(local, LAMBDA p : \A q \in Range(found) : q.codec # p.codec)
  IN  found \o [i \in 1..Len(others) |-> [others[i] EXCEPT !.send = FALSE]]

\* match_payloads(), of an answer: also received with our numbers, and all that we
\* have offered is, just in case.
PayloadsOfAnswer(local, remote) ==
  LET Both(p) ==
        LET q == local[BestMatch(local, p)]
        IN  IF q.num = p.num THEN <<p>> ELSE <<p, [p EXCEPT !.num = q.num]>>
      matched == Matched(local, remote, FALSE)
      found == FlattenSeq([i \in 1..Len(matched) |-> Both(matched[i])])
      others == SelectSeq(local, LAMBDA p : \A q \in Range(found) : q.num # p.num)
  IN  found \o [i \in 1..Len(others) |-> [others[i] EXCEPT !.send = FALSE]]

\* make_profile(): what is sent, and the codec a number is decoded with.
UsedPayload(stream) == stream.payloads[SelectInSeq(stream.payloads, LAMBDA p : p.send)]

Decodes(stream, p) ==
  LET i == SelectInSeq(stream.payloads, LAMBDA q : q.num = p.num)
  IN  i # 0 /\ stream.payloads[i].codec = p.codec

-----------------------------------------------------------------------------
(* Keys                                                                    *)

\* match_crypto_algo(): the first suite of the far end that we have, or <<0, 0>>.
CryptoMatch(local, remote) ==
  LET i == SelectInSeq(remote, LAMBDA r : \E l \in Range(local) : l.suite = r.suite)
  IN  IF i = 0 THEN <<0, 0>>
      ELSE <<i, SelectInSeq(local, LAMBDA l : l.suite = remote[i].suite)>>

\* use_local_key: our key with the tag of the far end.
WithLocalKey(local, remote) ==
  LET ij == CryptoMatch(local, remote)
  IN  [local[ij[2]] EXCEPT !.tag = remote[ij[1]].tag]

\* Not use_local_key: the key of the far end with our tag.
WithRemoteKey(local, remote) ==
  LET ij == CryptoMatch(local, remote)
  IN  [remote[ij[1]] EXCEPT !.tag = local[ij[2]].tag]

\* find_crypto_index_from_tag(), and the keys set in start_audio_stream().
KeysOf(stream, local) ==
  LET mine == local.crypto[SelectInSeq(local.crypto, LAMBDA l : l.tag = stream.tag)]
      suite == stream.crypto[1].suite
  IN  [ recv |-> <<suite, stream.crypto[1].key>>, send |-> <<suite, mine.key>> ]

-----------------------------------------------------------------------------
(* The callee                                                              *)

\* compute_dir_incoming()
DirAnswered(local, offered) ==
  CASE local = "sendrecv" -> DirOfOffer(offered)
    [] local = "sendonly" /\ offered \in {"recvonly", "sendrecv"} -> "sendonly"
    [] local = "recvonly" /\ offered \in {"sendonly", "sendrecv"} -> "recvonly"
    [] OTHER -> "inactive"

\* proto_compatible()
ProtoCompatible(local, remote) == local = remote \/ (remote = "avp" /\ local = "savp")

\* find_local_matching_stream().  local_stream_not_already_used() compares with
\* no stream at all, since nb_streams is only set after the loop.
LocalFor(caps, line) ==
  SelectInSeq(caps, LAMBDA s : /\ s.active /\ s.type = line.type
                               /\ ProtoCompatible(s.proto, line.proto))

\* The local stream each line is answered with, or 0: that of the line before,
\* when the protocol is not known.
LocalsFor(caps, offer) ==
  LET ls[i \in 0..Len(offer)] ==
        IF i = 0 THEN 0
        ELSE IF offer[i].proto # "other" THEN LocalFor(caps, offer[i]) ELSE ls[i - 1]
  IN  ls

\* initiate_incoming(), of a stream that is not multicast
InitiateIncoming(cap, line, one) ==
  LET payloads == PayloadsOfOffer(cap.payloads, line.payloads, one)
      match == CryptoMatch(cap.crypto, line.crypto)
      accepted == /\ ~OnlyEvents(payloads) /\ line.active /\ line.dir # "recvonly"
                  /\ Secure(line) => match # <<0, 0>>
      keyed == accepted /\ Secure(line)
  IN  [ type |-> cap.type, proto |-> line.proto, active |-> accepted,
        dir |-> DirAnswered(cap.dir, line.dir), payloads |-> payloads,
        crypto |-> IF keyed THEN <<WithLocalKey(cap.crypto, line.crypto)>> ELSE <<>>,
        tag |-> IF keyed THEN cap.crypto[match[2]].tag ELSE 0 ]

Declined(line) ==
  [ type |-> line.type, proto |-> line.proto, active |-> FALSE, dir |-> "inactive",
    payloads |-> <<>>, crypto |-> <<>>, tag |-> 0 ]

\* offer_answer_initiate_incoming()
AnswerTo(caps, offer, one) ==
  LET ls == LocalsFor(caps, offer)
  IN  [i \in 1..Len(offer) |->
         IF ls[i] = 0 THEN Declined(offer[i]) ELSE InitiateIncoming(caps[ls[i]], offer[i], one)]

\* sdp_process(): the streams the callee runs have the first key of the offer.
RunByCallee(answer, offer) ==
  [i \in 1..Len(answer) |->
     IF answer[i].active /\ Secure(answer[i])
     THEN [answer[i] EXCEPT !.crypto = <<offer[i].crypto[1]>>] ELSE answer[i]]

Answer ==
  LET x == neg.start
      answer == AnswerTo(x.caps, x.offer, x.one)
  IN  /\ neg.phase = "offered" /\ x.reply = <<>>
      /\ neg' = [neg EXCEPT !.phase = "answered", !.answer = answer,
                            !.callee = RunByCallee(answer, x.offer)]

-----------------------------------------------------------------------------
(* The caller                                                              *)

\* initiate_outgoing(), of a stream that is not multicast.  The payloads of what the
\* far end refuses are not read.
InitiateOutgoing(local, line) ==
  LET payloads == PayloadsOfAnswer(local.payloads, line.payloads)
      match == CryptoMatch(local.crypto, line.crypto)
      keyed == Secure(line) /\ match # <<0, 0>>
  IN  [ type |-> local.type, proto |-> line.proto,
        active |-> line.active /\ ~OnlyEvents(payloads) /\ (Secure(line) => keyed),
        dir |-> DirOfAnswer(local.dir, line.dir), payloads |-> payloads,
        crypto |-> IF keyed THEN <<WithRemoteKey(local.crypto, line.crypto)>> ELSE <<>>,
        tag |-> IF keyed THEN local.crypto[match[2]].tag ELSE 0 ]

\* sal_media_description_find_stream(): among those that are active.
FindStream(streams, proto, type) ==
  SelectInSeq(streams, LAMBDA s : s.active /\ s.proto = proto /\ s.type = type)

\* offer_answer_initiate_outgoing(): a stream that is declined has no result, and
\* those of the next ones move up.
RunByCaller(offer, answer) ==
  LET Found(s) == FindStream(answer, s.proto, s.type)
      taken == SelectSeq(offer, LAMBDA s : Found(s) # 0)
  IN  [i \in 1..Len(taken) |-> InitiateOutgoing(taken[i], answer[Found(taken[i])])]

ReadAnswer ==
  /\ neg.phase = "answered" /\ neg.start.own
  /\ neg' = [neg EXCEPT !.phase = "running",
                        !.caller = RunByCaller(neg.start.offer, neg.answer)]

\* The answer of another implementation, which then runs it.
AnswerOfOther ==
  /\ neg.phase = "offered" /\ neg.start.reply # <<>>
  /\ neg' = [neg EXCEPT !.phase = "answered", !.answer = neg.start.reply,
                        !.callee = neg.start.reply]

NegNext == Answer \/ AnswerOfOther \/ ReadAnswer

NegSpec == NegInit /\ [][NegNext]_neg

-----------------------------------------------------------------------------
(* What is to be true of an exchange.                                      *)

Sends(dir)    == dir \in {"sendrecv", "sendonly"}
Receives(dir) == dir \in {"sendrecv", "recvonly"}

\* What an accepted line of the answer owes to that of the offer, and to what we are.
Fits(answered, line, cap) ==
  /\ line.active /\ ~OnlyEvents(answered.payloads)
  /\ Sends(answered.dir) => Receives(line.dir) /\ Sends(cap.dir)
  /\ Receives(answered.dir) => Sends(line.dir) /\ Receives(cap.dir)
  /\ \A p \in Range(answered.payloads) :
       /\ \E q \in Range(line.payloads) : q.codec = p.codec /\ q.num = p.num
       /\ \E q \in Range(cap.payloads) : q.codec = p.codec
  /\ Secure(line) =>
       \E k \in Range(line.crypto), l \in Range(cap.crypto) :
         /\ answered.crypto[1].suite = k.suite /\ answered.crypto[1].tag = k.tag
         /\ answered.crypto[1].suite = l.suite /\ answered.crypto[1].key = l.key

\* The answer has a line for each of the offer, of its type, and what it accepts was
\* offered: with the numbers and the tags of the offer, and no direction the far
\* end has not.  A line of unknown protocol after one that is known is left out: it
\* is answered as that one is (offeranswer.c:572).
AnswerFitsOffer ==
  LET offer == neg.start.offer
      ls == LocalsFor(neg.start.caps, offer)
  IN  neg.phase # "offered" /\ neg.start.reply = <<>> =>
        /\ Len(neg.answer) = Len(offer)
        /\ \A i \in 1..Len(offer) :
             offer[i].proto # "other" \/ ls[i] = 0 =>
               /\ neg.answer[i].type = offer[i].type /\ neg.answer[i].proto = offer[i].proto
               /\ neg.answer[i].active =>
                    Fits(neg.answer[i], offer[i], neg.start.caps[ls[i]])

OfType(streams, type) == SelectInSeq(streams, LAMBDA s : s.active /\ s.type = type)

\* The payloads the callee sends: the offer has their numbers.
SentByCallee(type) ==
  LET callee == neg.callee[OfType(neg.callee, type)]
      offer == neg.start.offer[OfType(neg.start.offer, type)]
  IN  IF neg.start.reply = <<>> THEN {UsedPayload(callee)}
      ELSE {p \in Range(offer.payloads) : \E q \in Range(callee.payloads) : q.codec = p.codec}

\* Both sides run the same streams, each sending what the other receives, with
\* numbers it decodes to the same codec, wherever in the answer the stream stands.
BothSidesAgree ==
  neg.phase = "running" =>
    \A type \in {"audio", "video"} :
      LET a == OfType(neg.caller, type)
          b == OfType(neg.callee, type)
      IN  /\ a = 0 <=> b = 0
          /\ a # 0 =>
               LET caller == neg.caller[a]
                   callee == neg.callee[b]
               IN  /\ Sends(caller.dir) = Receives(callee.dir)
                   /\ Receives(caller.dir) = Sends(callee.dir)
                   /\ Sends(caller.dir) => Decodes(callee, UsedPayload(caller))
                   /\ Sends(callee.dir) =>
                        \A p \in SentByCallee(type) : Decodes(caller, p)

\* What each side encrypts, the other can decrypt: the callee takes, for the streams,
\* "media parameters constraint from the remote offer" (sal_op_call.c:77).
KeysAgree ==
  neg.phase = "running" /\ neg.start.reply = <<>> =>
    \A type \in {"audio", "video"} :
      LET a == OfType(neg.caller, type)
          b == OfType(neg.callee, type)
          ofCaller == KeysOf(neg.caller[a], neg.start.offer[OfType(neg.start.offer, type)])
          ofCallee == KeysOf(neg.callee[b], neg.start.caps[OfType(neg.start.caps, type)])
      IN  a # 0 /\ b # 0 /\ Secure(neg.caller[a]) =>
            ofCaller.send = ofCallee.recv /\ ofCallee.send = ofCaller.recv
=============================================================================
