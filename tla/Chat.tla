-------------------------------- MODULE Chat --------------------------------
(***************************************************************************)
(* One chat room: the messages the application sends in it, as text or as  *)
(* a file that is first uploaded, with the references and the transient    *)
(* list that keep them for their answer; the files it downloads; the "is   *)
(* composing" state of both sides with its timers; and the memory of the   *)
(* identifiers received.  chat.c, callbacks.c and sal_op_message.c.        *)
(***************************************************************************)
EXTENDS Naturals, SequencesExt

CONSTANTS Message, MsgId,
          MaxIds,          \* identifiers remembered: 10 in the code
          MaxMessageRefs,  \* bound on the references of the application
          MaxSends         \* bound on the times one message is sent

ASSUME ChatAssumption ==
  MaxIds \in Nat \ {0} /\ MaxMessageRefs \in Nat \ {0} /\ MaxSends \in Nat \ {0}

VARIABLES msg,       \* the messages
          room,      \* composing, on both sides
          ids,       \* last_recv_msg_ids
          accepted   \* the last MaxIds identifiers given to the application

chatVars == <<msg, room, ids, accepted>>

MessageState == {"Idle", "InProgress", "Delivered", "NotDelivered",
                 "FileTransferError", "FileTransferDone"}

\* refs counts app, the references of the application, those it has handed over by
\* sending, and those of the list.  listed: how often it is in transient_messages;
\* awaited: the MESSAGEs whose answer will reach it; lost: one was sent whose
\* answer never will; uploaded: content_type is set; request: http_request is kept.
MessageType ==
  [ kind: {"unused", "text", "file", "received"}, state: MessageState, uploaded: BOOLEAN,
    http: {"none", "first", "second", "get"}, request: BOOLEAN, refs: Nat, app: Nat,
    sends: Nat, listed: Nat, awaited: Nat, lost: BOOLEAN ]

NoMessage ==
  [ kind |-> "unused", state |-> "Idle", uploaded |-> FALSE, http |-> "none",
    request |-> FALSE, refs |-> 0, app |-> 0, sends |-> 0, listed |-> 0, awaited |-> 0,
    lost |-> FALSE ]

\* linphone_chat_room_create_message(), for the application
NewMessage(kind) == [NoMessage EXCEPT !.kind = kind, !.refs = 1, !.app = 1]

NobodyComposes ==
  [ composing |-> FALSE, idleTimer |-> FALSE, refreshTimer |-> FALSE, remote |-> FALSE,
    remoteTimer |-> FALSE ]

ChatInit ==
  /\ msg = [m \in Message |-> NoMessage]
  /\ room = NobodyComposes
  /\ ids = <<>> /\ accepted = <<>>

-----------------------------------------------------------------------------
(* Sending                                                                 *)

MessageRef(x)   == [x EXCEPT !.refs = @ + 1]
MessageUnref(x) == [x EXCEPT !.refs = @ - 1]

\* The last reference goes: the operation is released with the message.
Shown(m, x) == msg' = [msg EXCEPT ![m] = IF x.refs = 0 THEN NoMessage ELSE x]

\* Mutant: only a message that is delivered leaves the list.
KeepsRefused(x) ==
  IF x.state = "Delivered"
  THEN MessageUnref([x EXCEPT !.listed = IF @ = 0 THEN 0 ELSE @ - 1]) ELSE x

\* linphone_chat_message_update_state()
UpdateMessageState(x) ==
  IF x.state \in {"Delivered", "NotDelivered"}
  THEN MessageUnref([x EXCEPT !.listed = IF @ = 0 THEN 0 ELSE @ - 1]) ELSE x

\* Mutant: the reference goes with any news of the message.
ReleasedByNews(x, state) == MessageUnref(UpdateMessageState([x EXCEPT !.state = state]))

\* text_delivery_update()
DeliveryUpdate(x, state) ==
  LET y == UpdateMessageState([x EXCEPT !.state = state])
  IN  IF state = "InProgress" THEN y ELSE MessageUnref(y)

\* What becomes of a MESSAGE: its answer will reach the message; none will, since
\* it is sent in the dialog of a call or the request cannot be built; or it cannot be
\* encrypted, which is reported before linphone_chat_room_send_message() goes on.
MessageFate == {"awaited", "lost", "unencrypted"}

\* _linphone_chat_room_send_message(), of what needs no upload.  With lime, the
\* reference taken against that report is never given back.
Posted(x, lime, fate) ==
  LET held == MessageRef(IF lime THEN MessageRef(x) ELSE x)
      sent == CASE fate = "awaited"     -> [held EXCEPT !.awaited = @ + 1]
                [] fate = "lost"        -> [held EXCEPT !.lost = TRUE]
                [] fate = "unencrypted" ->
                     [DeliveryUpdate(held, "NotDelivered") EXCEPT !.lost = TRUE]
  IN  MessageUnref(MessageRef([sent EXCEPT !.listed = @ + 1]))

\* What a message that is sent ends.
ComposingEnds(r) == [r EXCEPT !.composing = FALSE, !.idleTimer = FALSE, !.refreshTimer = FALSE]

\* _linphone_chat_room_send_message(): without a server, the reference it has taken
\* is not given back.
SendsMessage(m, x) ==
  \/ /\ x.kind = "file" /\ ~x.uploaded
     /\ Shown(m, MessageRef(x)) \/ Shown(m, [x EXCEPT !.http = "first", !.request = TRUE])
     /\ UNCHANGED <<room, ids, accepted>>
  \/ /\ x.kind = "text" \/ x.uploaded
     /\ \E fate \in MessageFate, lime \in BOOLEAN :
          /\ fate = "unencrypted" => lime
          /\ Shown(m, Posted(x, lime, fate))
     /\ room' = ComposingEnds(room)
     /\ UNCHANGED <<ids, accepted>>

\* linphone_chat_room_create_message(), linphone_chat_room_create_file_transfer_message()
CreateMessage(m) ==
  /\ msg[m].kind = "unused"
  /\ \E kind \in {"text", "file"} : Shown(m, NewMessage(kind))
  /\ UNCHANGED <<room, ids, accepted>>

\* linphone_chat_room_send_message2(): "The LinphoneChatMessage must not be destroyed
\* until the callback is called" (linphonecore.h:1550), so a reference goes with it.
SendMessage(m) ==
  /\ msg[m].kind \in {"text", "file"} /\ msg[m].app > 0
  /\ msg[m].http = "none" /\ msg[m].sends < MaxSends
  /\ SendsMessage(m, [msg[m] EXCEPT !.state = "InProgress", !.app = @ - 1, !.sends = @ + 1])

\* linphone_chat_message_ref(), and linphone_chat_message_unref(), which the
\* application does not use on what it is downloading.
RefMessage(m) ==
  /\ msg[m].app \in 1..(MaxMessageRefs - 1)
  /\ Shown(m, MessageRef([msg[m] EXCEPT !.app = @ + 1]))
  /\ UNCHANGED <<room, ids, accepted>>

UnrefMessage(m) ==
  /\ msg[m].app > 0 /\ ~(msg[m].http = "get" /\ msg[m].app = 1)
  /\ Shown(m, MessageUnref([msg[m] EXCEPT !.app = @ - 1]))
  /\ UNCHANGED <<room, ids, accepted>>

\* text_delivery_update(), of an operation of its own: a provisional answer, or what
\* ends the MESSAGE.
MessageAnswered(m) ==
  LET x == msg[m]
  IN  /\ x.awaited > 0
      /\ \/ Shown(m, DeliveryUpdate(x, "InProgress"))
         \/ \E state \in {"Delivered", "NotDelivered"} :
              Shown(m, DeliveryUpdate([x EXCEPT !.awaited = @ - 1], state))
      /\ UNCHANGED <<room, ids, accepted>>

-----------------------------------------------------------------------------
(* File transfer                                                           *)

\* linphone_chat_message_process_response_from_post_file(), process_io_error_upload()
\* and process_auth_requested_upload().  After any other answer than 200 and 204,
\* nothing ever follows.
UploadProceeds(m) ==
  LET x == msg[m]
  IN  /\ x.http \in {"first", "second"}
      /\ \/ /\ Shown(m, [x EXCEPT !.http = "second"])                              \* 204
            /\ UNCHANGED <<room, ids, accepted>>
         \/ SendsMessage(m, [x EXCEPT !.http = "none", !.request = FALSE,          \* 200
                                      !.uploaded = TRUE, !.state = "FileTransferDone"])
         \/ /\ \/ Shown(m, [x EXCEPT !.http = "none", !.lost = TRUE])
               \/ Shown(m, [x EXCEPT !.http = "none", !.state = "NotDelivered"])
            /\ UNCHANGED <<room, ids, accepted>>

\* linphone_chat_message_download_file()
DownloadFile(m) ==
  /\ msg[m].kind = "received" /\ msg[m].http = "none"
  /\ Shown(m, [msg[m] EXCEPT !.http = "get", !.request = TRUE, !.state = "InProgress"])
  /\ UNCHANGED <<room, ids, accepted>>

\* linphone_chat_process_response_from_get_file(), which tells nothing of another
\* answer than 200, and the errors of the download
DownloadEnds(m) ==
  /\ msg[m].http = "get"
  /\ \E state \in {"FileTransferDone", "FileTransferError", "InProgress"} :
       Shown(m, [msg[m] EXCEPT !.http = "none", !.state = state])
  /\ UNCHANGED <<room, ids, accepted>>

\* linphone_chat_message_cancel_file_transfer(), also of a transfer that is over
CancelFileTransfer(m) ==
  /\ msg[m].request /\ msg[m].app > 0
  /\ Shown(m, [msg[m] EXCEPT !.http = "none", !.request = FALSE, !.state = "NotDelivered"])
  /\ UNCHANGED <<room, ids, accepted>>

-----------------------------------------------------------------------------
(* Composing                                                               *)

\* linphone_chat_room_compose()
Compose ==
  /\ room' = [room EXCEPT !.composing = TRUE, !.idleTimer = TRUE, !.refreshTimer = TRUE]
  /\ UNCHANGED <<msg, ids, accepted>>

\* linphone_chat_room_stop_composing(), the idle timer
StopComposing ==
  /\ room.idleTimer
  /\ room' = ComposingEnds(room)
  /\ UNCHANGED <<msg, ids, accepted>>

\* process_im_is_composing_notification()
IsComposingReceived ==
  /\ \E active \in BOOLEAN : room' = [room EXCEPT !.remote = active, !.remoteTimer = active]
  /\ UNCHANGED <<msg, ids, accepted>>

\* linphone_chat_room_remote_refresh_composing_expired()
RemoteComposingExpires ==
  /\ room.remoteTimer
  /\ room' = [room EXCEPT !.remote = FALSE, !.remoteTimer = FALSE]
  /\ UNCHANGED <<msg, ids, accepted>>

-----------------------------------------------------------------------------
(* Receiving                                                               *)

\* Mutant: one identifier less is remembered.
RemembersLess(known, id) ==
  LET duplicate == Contains(known, id)
      added == IF duplicate THEN known ELSE <<id>> \o known
  IN  [ duplicate |-> duplicate,
        known |-> IF Len(known) + 1 >= MaxIds THEN Front(added) ELSE added ]

\* is_duplicate_msg(): the tail goes, also when a duplicate adds nothing.
LookedUp(known, id) ==
  LET duplicate == Contains(known, id)
      added == IF duplicate THEN known ELSE <<id>> \o known
  IN  [ duplicate |-> duplicate,
        known |-> IF Len(known) >= MaxIds THEN Front(added) ELSE added ]

\* text_received(), when chat is not denied; a MESSAGE may be sent again, late.
Received(id) ==
  LET seen == LookedUp(ids, id)
      given == <<id>> \o accepted
  IN  /\ ids' = seen.known
      /\ accepted' = IF seen.duplicate THEN accepted
                     ELSE IF Len(given) > MaxIds THEN Front(given) ELSE given
      /\ room' = IF seen.duplicate THEN room ELSE [room EXCEPT !.remote = FALSE]

TextReceived(id) == Received(id) /\ UNCHANGED msg

\* A file message, which the application keeps.
FileReceived(m, id) ==
  /\ msg[m].kind = "unused" /\ ~LookedUp(ids, id).duplicate
  /\ Received(id)
  /\ Shown(m, [NewMessage("received") EXCEPT !.state = "Delivered"])

-----------------------------------------------------------------------------
MessageStep(m) ==
  \/ CreateMessage(m) \/ SendMessage(m) \/ RefMessage(m) \/ UnrefMessage(m)
  \/ MessageAnswered(m) \/ UploadProceeds(m) \/ DownloadFile(m) \/ DownloadEnds(m)
  \/ CancelFileTransfer(m)

ComposingStep ==
  Compose \/ StopComposing \/ IsComposingReceived \/ RemoteComposingExpires

ChatNext ==
  \/ ComposingStep
  \/ \E m \in Message : MessageStep(m) \/ \E id \in MsgId : FileReceived(m, id)
  \/ \E id \in MsgId : TextReceived(id)

ChatSpec == ChatInit /\ [][ChatNext]_chatVars

-----------------------------------------------------------------------------
(* What is to be true of chat.                                             *)

\* Every answer still to come finds the message with the reference it gives back
\* and that of the list, whatever the application does with its own, and however
\* often the message is sent or its upload fails.
AwaitedIsHeld ==
  \A m \in Message :
    LET x == msg[m]
        uploading == IF x.http \in {"first", "second"} THEN 1 ELSE 0
    IN  x.refs >= x.app + x.listed + x.awaited + uploading

\* A message leaves the transient list with its answer; one whose answer cannot
\* reach it stays.
TransientIsUnanswered ==
  \A m \in Message : msg[m].listed > 0 => msg[m].awaited > 0 \/ msg[m].lost

\* A MESSAGE that is sent again is given to the application once, unless MaxIds - 1
\* others have come since.
RecentAreDistinct == \A i, j \in 1..Len(accepted) : accepted[i] = accepted[j] => i = j
=============================================================================
