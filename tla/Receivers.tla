----------------------------- MODULE Receivers -----------------------------
(***************************************************************************)
(* The webhooks of the chat platforms.  A platform posts a batch of        *)
(* messages, and posts it again, whole, until a post is answered 200.  The *)
(* handler records the post under an event key, enqueues its messages one  *)
(* by one, records the outcome and answers; an error on the way is         *)
(* answered 503.  Any replica may take any post, at any time.              *)
(*                                                                         *)
(* Platforms share no rows: a behaviour is about one of them.              *)
(***************************************************************************)
EXTENDS Naturals, Sequences

CONSTANTS Posts,     \* bodies a platform posts
          Contents,  \* messages
          Carries,   \* [Posts -> its messages, in the order of the body]
          Handlers   \* requests being handled

ASSUME ReceiverAssumption == Carries \in [Posts -> Seq(Contents)]

VARIABLES platform,  \* the platform of this behaviour
          hook,      \* [keys -> processing_status of the webhook_deliveries row]
          queued,    \* messages with an inbound_messages row
          handler,   \* [Handlers -> the post in its hands]
          answered   \* posts that were answered 200

receiverVars == <<platform, hook, queued, handler, answered>>

Platforms == {"whatsapp", "telegram", "instagram", "facebookmessenger", "tiktok"}
Resting == [pc |-> "resting"]

ReceiverInit ==
  /\ platform \in Platforms
  /\ hook = [key \in Posts \cup Contents |-> "none"]
  /\ queued = {}
  /\ handler = [h \in Handlers |-> Resting]
  /\ answered = {}

\* The message whose id names a post, or the digest of one that carries none.
First(p) == IF Carries[p] = <<>> THEN p ELSE Carries[p][1]
Handles(h, p) == handler[h].pc = "working" /\ handler[h].post = p

-----------------------------------------------------------------------------
\* RecordWebhook: a key seen before keeps its row.
RecordWebhook(h, p, key) ==
  /\ handler[h] = Resting
  /\ hook' = [hook EXCEPT ![key] = IF @ = "none" THEN "received" ELSE @]
  /\ handler' = [handler EXCEPT ![h] = [pc |-> "working", post |-> p, next |-> 1,
                                        fresh |-> hook[key] = "none"]]
  /\ UNCHANGED <<platform, queued, answered>>

\* Mutant: a post recorded before is answered without reading it again.
LeftMutant(h, p) == handler[h].fresh /\ handler[h].next <= Len(Carries[p])

\* Messages of the post are still to be enqueued.
Left(h, p) == handler[h].next <= Len(Carries[p])

\* One message of the post; a known id is dropped.
EnqueueNext(h, p) ==
  /\ Handles(h, p) /\ Left(h, p)
  /\ queued' = queued \cup {Carries[p][handler[h].next]}
  /\ handler' = [handler EXCEPT ![h].next = @ + 1]
  /\ UNCHANGED <<platform, hook, answered>>

\* The error of CompleteWebhook is dropped.
CompleteWebhook(key, status) == hook' = [hook EXCEPT ![key] = status] \/ UNCHANGED hook

\* The signature or the body is not good, or a message cannot be enqueued.
Refuse(h, p, key) ==
  /\ Handles(h, p) /\ (handler[h].next = 1 \/ Left(h, p))
  /\ CompleteWebhook(key, "failed")
  /\ handler' = [handler EXCEPT ![h] = Resting]
  /\ UNCHANGED <<platform, queued, answered>>

\* All are enqueued: 200.
Accept(h, p, key, marks) ==
  /\ Handles(h, p) /\ ~Left(h, p)
  /\ IF marks THEN CompleteWebhook(key, "accepted") ELSE UNCHANGED hook
  /\ answered' = answered \cup {p}
  /\ handler' = [handler EXCEPT ![h] = Resting]
  /\ UNCHANGED <<platform, queued>>

Receive(h, p, key, marks) ==
  RecordWebhook(h, p, key) \/ EnqueueNext(h, p) \/ Refuse(h, p, key) \/ Accept(h, p, key, marks)

-----------------------------------------------------------------------------
(* The handlers differ in the key and in who records the outcome: every    *)
(* post, or only the one that made the row.                                *)

\* The request made the row of its key.
Fresh(h) == handler[h] # Resting /\ handler[h].fresh

receiveWhatsAppWebhook(h, p) == platform = "whatsapp" /\ Receive(h, p, p, TRUE)

receiveTelegramWebhook(h, p) ==
  platform = "telegram" /\ Receive(h, p, First(p), Fresh(h))

receiveInstagramWebhook(h, p) == platform = "instagram" /\ Receive(h, p, First(p), TRUE)

receiveFacebookMessengerWebhook(h, p) ==
  platform = "facebookmessenger" /\ Receive(h, p, First(p), TRUE)

receiveTikTokWebhook(h, p) ==
  platform = "tiktok" /\ Receive(h, p, First(p), Fresh(h))

\* The process dies, or the platform hangs up.
HangUp(h) ==
  /\ handler[h] # Resting
  /\ handler' = [handler EXCEPT ![h] = Resting]
  /\ UNCHANGED <<platform, hook, queued, answered>>

ReceiverNext ==
  \/ \E h \in Handlers, p \in Posts :
       \/ receiveWhatsAppWebhook(h, p) \/ receiveTelegramWebhook(h, p)
       \/ receiveInstagramWebhook(h, p) \/ receiveFacebookMessengerWebhook(h, p)
       \/ receiveTikTokWebhook(h, p)
  \/ \E h \in Handlers : HangUp(h)

ReceiverSpec == ReceiverInit /\ [][ReceiverNext]_receiverVars

-----------------------------------------------------------------------------
(* Properties.                                                             *)

\* Rows and requests have the shape the code gives them.
ReceiverTypeOK ==
  /\ platform \in Platforms
  /\ hook \in [Posts \cup Contents -> {"none", "received", "failed", "accepted"}]
  /\ queued \subseteq Contents
  /\ handler \in [Handlers -> {Resting} \cup
       [pc : {"working"}, post : Posts, next : Nat \ {0}, fresh : BOOLEAN]]
  /\ answered \subseteq Posts

\* "persists a normalized message before webhook acknowledgement": what a platform
\* was told to forget is in the queue, whatever died, was refused half-way or
\* was posted twice at once, and a delivery shown as accepted stands for such a post.
AcceptedIsQueued ==
  LET stored(p) == \A i \in 1 .. Len(Carries[p]) : Carries[p][i] \in queued
  IN  /\ \A p \in answered : stored(p)
      /\ \A key \in DOMAIN hook :
           hook[key] = "accepted" => \E p \in answered : key \in {p, First(p)} /\ stored(p)

-----------------------------------------------------------------------------
(* What a reader of the deliveries might expect and the code does not do.  *)

\* A post that was answered 200 is not shown as failed or unfinished.
AnsweredIsAccepted ==
  \A p \in answered : hook[IF platform = "whatsapp" THEN p ELSE First(p)] = "accepted"
=============================================================================
