----------------------------- MODULE MailFeeds -----------------------------
(***************************************************************************)
(* The channels the hub reads itself over HTTP: Gmail (a Pub/Sub pull and  *)
(* a list of the newest messages), Outlook (a delta link) and the calendar *)
(* (a sync token).  subscribe() is a generator whose place lives in its    *)
(* own variables; adapters.ts pumps it into the ingest sink, subscribes    *)
(* again when it throws, gives up for good after the last retry and        *)
(* reports its health, which the kernel turns into accounts.state.         *)
(*                                                                         *)
(* A LinkedIn notification among Gmail's messages is stored a second time, *)
(* on the linkedin account, by the hook around the sink.                   *)
(* The remote services are outside src.                                    *)
(***************************************************************************)
EXTENDS Naturals, Sequences, SequencesExt

CONSTANTS
  MaxMails,       \* bound on the mails that arrive, numbered in that order
  Notifications,  \* those parseNotificationEmail derives an item from
  ListMax,        \* maxResults of Gmail's list
  PageMax,        \* what one page of the other two services holds
  MaxRetries,     \* of the pump
  Threshold,      \* ADAPTER_HEALTH_FAIL_THRESHOLD
  MaxMailFaults   \* bound on failures, expired tokens and restarts

ASSUME MailAssumption ==
  /\ Notifications \subseteq 1 .. MaxMails
  /\ {MaxMails, ListMax, PageMax, MaxRetries, Threshold, MaxMailFaults} \subseteq Nat

VARIABLES
  service,      \* which adapter this is
  arrived,      \* how many mails have arrived there
  unacked,      \* Pub/Sub: arrivals that are not acknowledged
  expired,      \* the server no longer accepts the place the generator holds
  run,          \* the pump
  attempt,
  gen,          \* the generator: its page, the note or place it settles, its place
  stored,       \* items of the account
  previews,     \* items of the linkedin account
  state,        \* accounts.state
  misses,       \* consecutiveFailures of the channel
  lost,         \* history: reports the database refused since the hub booted
  mailFaults

remote == <<service, arrived, unacked, expired>>
items == <<stored, previews>>
health == <<state, misses, lost>>
mvars == <<remote, run, attempt, gen, items, health, mailFaults>>

Mails == 1 .. MaxMails
NoNote == 0
\* A generator that waits for its first answer, at the beginning.
Fresh == [at |-> "wait", todo |-> <<>>, note |-> NoNote, next |-> 0, link |-> 0]

MailTypeOK ==
  /\ service \in {"gmail", "outlook", "gcal"}
  /\ arrived \in 0 .. MaxMails /\ unacked \subseteq 1 .. arrived
  /\ expired \in BOOLEAN
  /\ run \in {"off", "subscribed", "retrying", "ended"} /\ attempt \in 0 .. MaxRetries
  /\ gen \in [at : {"wait", "page", "preview"}, todo : Seq(Mails),
              note : Mails \cup {NoNote}, next : 0 .. arrived, link : 0 .. arrived]
  /\ stored \subseteq 1 .. arrived /\ previews \subseteq Notifications
  /\ state \in {"active", "broken"}
  /\ misses \in 0 .. MaxRetries + 1 /\ lost \in 0 .. MaxMailFaults

MailInit ==
  /\ service \in {"gmail", "outlook", "gcal"}
  /\ arrived = 0 /\ unacked = {} /\ expired = FALSE
  /\ run = "subscribed" /\ attempt = 0 /\ gen = Fresh
  /\ stored = {} /\ previews = {}
  /\ state = "active" /\ misses = 0 /\ lost = 0 /\ mailFaults = 0

MailFault == mailFaults < MaxMailFaults /\ mailFaults' = mailFaults + 1

-----------------------------------------------------------------------------
(* The remote service.                                                     *)

Arrive ==
  /\ arrived < MaxMails /\ arrived' = arrived + 1
  /\ unacked' = IF service = "gmail" THEN unacked \cup {arrived'} ELSE unacked
  /\ UNCHANGED <<service, expired, run, attempt, gen, items, health, mailFaults>>

Expire ==
  /\ gen.link > 0 /\ ~expired /\ expired' = TRUE
  /\ MailFault
  /\ UNCHANGED <<service, arrived, unacked, run, attempt, gen, items, health>>

-----------------------------------------------------------------------------
(* The generators.                                                         *)

Newest(n) == [i \in 1 .. Min({n, arrived}) |-> arrived + 1 - i]

\* pull(): for one message of the subscription, the newest mail.
PullAndList ==
  /\ service = "gmail" /\ run = "subscribed" /\ gen.at = "wait"
  /\ \E note \in unacked :
       gen' = [gen EXCEPT !.at = "page", !.note = note, !.todo = Newest(ListMax)]
  /\ UNCHANGED <<remote, run, attempt, items, health, mailFaults>>

Later == [i \in 1 .. arrived - gen.link |-> gen.link + i]
Page(mails, next) ==
  gen' = [gen EXCEPT !.at = "page", !.todo = mails, !.next = next]

\* poll() of Outlook: a page, and the link that follows it.
DeltaPage ==
  /\ service = "outlook" /\ run = "subscribed" /\ gen.at = "wait" /\ ~expired
  /\ Later # <<>>
  /\ IF Len(Later) <= PageMax THEN Page(Later, arrived)
     ELSE Page(SubSeq(Later, 1, PageMax), gen.link + PageMax)
  /\ UNCHANGED <<remote, run, attempt, items, health, mailFaults>>

\* poll() of the calendar: the first page only, in an order of the server's; a
\* page that is not the last carries no sync token, and the next one starts over.
EventsPage ==
  /\ service = "gcal" /\ run = "subscribed" /\ gen.at = "wait" /\ ~expired
  /\ Later # <<>>
  /\ IF Len(Later) <= PageMax THEN Page(Later, arrived)
     ELSE \E s \in [1 .. PageMax -> ToSet(Later)] : IsInjective(s) /\ Page(s, 0)
  /\ UNCHANGED <<remote, run, attempt, items, health, mailFaults>>

\* Status 410: from the beginning.
Gone ==
  /\ run = "subscribed" /\ gen.at = "wait" /\ expired
  /\ expired' = FALSE /\ gen' = [gen EXCEPT !.link = 0]
  /\ UNCHANGED <<service, arrived, unacked, run, attempt, items, health, mailFaults>>

\* One item of the page through the sink, which stores it once.
Deliver ==
  /\ run = "subscribed" /\ gen.at = "page" /\ gen.todo # <<>>
  /\ LET m == Head(gen.todo) IN
     /\ stored' = stored \cup {m}
     /\ gen' = IF service = "gmail" /\ m \in Notifications
               THEN [gen EXCEPT !.at = "preview"]
               ELSE [gen EXCEPT !.todo = Tail(@)]
  /\ UNCHANGED <<remote, run, attempt, previews, health, mailFaults>>

\* linkedinFromGmail: then the item it announces.
DeliverPreview ==
  /\ run = "subscribed" /\ gen.at = "preview"
  /\ previews' = previews \cup {Head(gen.todo)}
  /\ gen' = [gen EXCEPT !.at = "page", !.todo = Tail(@)]
  /\ UNCHANGED <<remote, run, attempt, stored, health, mailFaults>>

AckFirst ==
  /\ run = "subscribed" /\ gen.at = "page"
  /\ unacked' = unacked \ {gen.note}
  /\ gen' = IF gen.todo = <<>> THEN [Fresh EXCEPT !.link = gen.next]
            ELSE [gen EXCEPT !.note = NoNote]
  /\ gen' # gen
  /\ UNCHANGED <<service, arrived, expired, run, attempt, items, health, mailFaults>>

\* The page is through: acknowledge the note, or move on to the next place.
PageDone ==
  /\ run = "subscribed" /\ gen.at = "page" /\ gen.todo = <<>>
  /\ unacked' = unacked \ {gen.note}
  /\ gen' = [Fresh EXCEPT !.link = gen.next]
  /\ UNCHANGED <<service, arrived, expired, run, attempt, items, health, mailFaults>>

-----------------------------------------------------------------------------
(* The pump and the health it reports.                                     *)

\* recordAdapterHealth(ok = false): the n-th failure in a row.  The count is
\* kept even when the report is lost.
ReportDown(n) ==
  /\ misses' = n
  /\ \/ state' = (IF n >= Threshold THEN "broken" ELSE state) /\ UNCHANGED lost
     \/ lost' = lost + 1 /\ UNCHANGED state

\* A call of the service or the sink throws: the generator is over.
Fails ==
  /\ run = "subscribed" /\ MailFault
  /\ gen' = Fresh /\ expired' = FALSE
  /\ IF attempt = MaxRetries THEN run' = "ended" /\ UNCHANGED attempt
     ELSE run' = "retrying" /\ attempt' = attempt + 1
  /\ ReportDown(misses + 1)
  /\ UNCHANGED <<service, arrived, unacked, items>>

\* subscribe() again, from its beginning.
Retry ==
  /\ run = "retrying" /\ run' = "subscribed"
  /\ UNCHANGED <<remote, attempt, gen, items, health, mailFaults>>

\* buildAdapters: an account whose connect() works is reported healthy and
\* pumped; one whose connect() fails is reported once and left out.
HubRestart ==
  /\ MailFault
  /\ gen' = Fresh /\ expired' = FALSE /\ attempt' = 0
  /\ lost' \in {0, 1}
  /\ \/ /\ run' = "subscribed" /\ misses' = 0
        /\ state' = IF lost' = 0 THEN "active" ELSE state
     \/ /\ run' = "off" /\ misses' = 1
        /\ state' = IF lost' = 0 /\ 1 >= Threshold THEN "broken" ELSE state
  /\ UNCHANGED <<service, arrived, unacked, items>>

MailNext ==
  \/ Arrive
  \/ Expire
  \/ PullAndList \/ DeltaPage \/ EventsPage \/ Gone
  \/ Deliver \/ DeliverPreview \/ PageDone
  \/ Fails \/ Retry \/ HubRestart

\* The services answer, Pub/Sub delivers every note again until it is
\* acknowledged, and the hub's timers fire; nothing makes a hub start again.
Progress ==
  \/ PullAndList \/ DeltaPage \/ EventsPage \/ Gone
  \/ Deliver \/ DeliverPreview \/ PageDone \/ Retry

Fairness ==
  /\ WF_mvars(Progress)
  /\ \A m \in Mails : SF_mvars(PullAndList /\ gen'.note = m)

MailSpec == MailInit /\ [][MailNext]_mvars /\ Fairness

-----------------------------------------------------------------------------
(* Properties.                                                             *)

\* ListMax newer mails hide a mail from Gmail's list, and a calendar of more
\* than one page never shows all of it.
Hidden(m) ==
  \/ service = "gmail" /\ arrived >= m + ListMax
  \/ service = "gcal" /\ arrived > PageMax

\* A note is acknowledged when the mail it announced is in the inbox, its
\* derived item too: a sink that fails in between, or a hub that dies, leaves
\* it to be delivered again.  Only newer mail can push it off the list.
AckedIsStored ==
  service = "gmail" =>
    \A m \in (1 .. arrived) \ unacked :
      Hidden(m) \/ (m \in stored /\ (m \in Notifications => m \in previews))

=============================================================================
