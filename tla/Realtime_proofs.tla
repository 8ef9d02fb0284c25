-------------------------- MODULE Realtime_proofs --------------------------
(***************************************************************************)
(* Proofs about what reaches the user: Notifications, Push and MarketData. *)
(* They share no state, so each has an invariant of its own.               *)
(***************************************************************************)
EXTENDS Notifications, Push, MarketData, Counting_proofs, TLAPS

(***************************************************************************)
(* Notifications: any users, notifications and requests in progress.  What *)
(* the properties rest on is the shape of documents and senders only, and   *)
(* their types are an invariant of their own.                              *)
(***************************************************************************)

IsNote(d) ==
    d \in [user : {d.user}, channel : {d.channel}, status : {d.status},
           sentAt : BOOLEAN, readAt : BOOLEAN, retryCount : {d.retryCount}]

IsSender(s) ==
    s \in [at : {s.at}, user : {s.user}, type : {s.type}, todo : {s.todo},
           note : {s.note}]

\* What the handler relies on: between two notifications it has none in hand,
\* and a mail is with the mail server before its success is saved.
Relies(s, taken) ==
    /\ s.at \in {"idle", "default", "create"} => s.note = None
    /\ s.at = "sent" /\ Head(s.todo) = "Email" => s.note \in taken

NotificationsShape ==
    /\ notes = [n \in NoteId |-> notes[n]]
    /\ preferences = [u \in Subscriber |-> preferences[u]]
    /\ chosen = [u \in Subscriber |-> chosen[u]]
    /\ senders = [h \in Handler |-> senders[h]]

NotesInv ==
    /\ \A n \in Note : IsNote(notes[n])
    /\ SentWasDelivered
    /\ PendingIsInHand

SendersInv == \A h \in Handler : IsSender(senders[h]) /\ Relies(senders[h], delivered)

NotificationsIInv == NotificationsShape /\ NotesInv /\ SendersInv /\ ChosenPreferencesKept

LEMMA NoneIsNoNote == None \notin NoteId
  BY NotificationsAssumption

LEMMA NotificationsInitIInv == NotificationsInit => NotificationsIInv
<1> SUFFICES ASSUME NotificationsInit PROVE NotificationsIInv
  OBVIOUS
<1>1. Note = {}
  BY DEF NotificationsInit, Note, StoredIn
<1>2. SendersInv
  BY DEF NotificationsInit, SendersInv, IsSender, Relies, NoSender
<1>3. QED
  BY <1>1, <1>2 DEF NotificationsInit, NotificationsIInv, NotificationsShape, NotesInv, SentWasDelivered,
     PendingIsInHand, ChosenPreferencesKept

-----------------------------------------------------------------------------
(* A sender moves.                                                         *)

LEMMA IdleSender ==
    ASSUME NEW taken PROVE IsSender(NoSender) /\ Relies(NoSender, taken)
  BY DEF IsSender, Relies, NoSender

\* Going on to the next channel leaves nothing in hand.
LEMMA NextChannel ==
    ASSUME NEW s, IsSender(s), NEW todo, NEW taken
    PROVE  /\ IsSender(WithChannels(s, todo))
           /\ Relies(WithChannels(s, todo), taken)
           /\ WithChannels(s, todo).note = None
<1>1. CASE todo = <<>>
  BY <1>1, IdleSender DEF WithChannels, NoSender
<1>2. CASE todo # <<>>
  BY <1>2 DEF WithChannels, IsSender, Relies
<1>3. QED
  BY <1>1, <1>2

\* The senders' part of the invariant, when one of them moves.
LEMMA SendersMove ==
    ASSUME NotificationsIInv, NEW h \in Handler, NEW state, SenderGoes(h, state),
           IsSender(state), Relies(state, delivered'), delivered \subseteq delivered'
    PROVE  /\ SendersInv'
           /\ senders' = [g \in Handler |-> senders'[g]]
           /\ senders'[h] = state
           /\ \A g \in Handler : g # h => senders'[g] = senders[g]
<1>1. senders = [g \in Handler |-> senders[g]]
  BY DEF NotificationsIInv, NotificationsShape
<1>2. senders' = [senders EXCEPT ![h] = state]
  BY DEF SenderGoes
<1>3. /\ senders' = [g \in Handler |-> senders'[g]]
      /\ senders'[h] = state
      /\ \A g \in Handler : g # h => senders'[g] = senders[g]
  BY <1>1, <1>2
<1>4. ASSUME NEW g \in Handler PROVE IsSender(senders'[g]) /\ Relies(senders'[g], delivered')
  <2>1. CASE g = h
    BY <2>1, <1>3 DEF Relies
  <2>2. CASE g # h
    BY <2>2, <1>3 DEF NotificationsIInv, SendersInv, Relies
  <2>3. QED
    BY <2>1, <2>2
<1>5. QED
  BY <1>3, <1>4 DEF SendersInv

-----------------------------------------------------------------------------
(* Notifications do not change.                                            *)

\* A sender with nothing Pending in hand moves, and preferences may change.
LEMMA OnlySender ==
    ASSUME NotificationsIInv, NEW h \in Handler, NEW state, SenderGoes(h, state),
           IsSender(state), Relies(state, delivered'), UNCHANGED notes,
           delivered \subseteq delivered', abandoned \subseteq abandoned',
           senders[h].note \in {None, state.note} \cup abandoned',
           preferences' = [u \in Subscriber |-> preferences'[u]],
           UNCHANGED chosen, ChosenPreferencesKept'
    PROVE  NotificationsIInv'
<1>1. /\ SendersInv'
      /\ senders' = [g \in Handler |-> senders'[g]]
      /\ senders'[h] = state
      /\ \A g \in Handler : g # h => senders'[g] = senders[g]
  BY SendersMove
<1>2. Note' = Note /\ Note \subseteq NoteId
  BY DEF Note, StoredIn, NotificationsIInv, NotificationsShape
<1>3. SentWasDelivered'
  BY <1>2 DEF NotificationsIInv, NotesInv, SentWasDelivered
<1>4. PendingIsInHand'
  <2> SUFFICES ASSUME NEW n \in Note, notes[n].status = "Pending"
               PROVE  n \in abandoned' \cup {senders'[g].note : g \in Handler}
    BY <1>2 DEF PendingIsInHand
  <2>1. n \in abandoned \/ \E g \in Handler : n = senders[g].note
    BY DEF NotificationsIInv, NotesInv, PendingIsInHand
  <2>2. n # None
    BY <1>2, NoneIsNoNote
  <2>3. QED
    BY <1>1, <2>1, <2>2
<1>5. QED
  BY <1>1, <1>2, <1>3, <1>4 DEF NotificationsIInv, NotificationsShape, NotesInv

LEMMA SendNotificationStep ==
    ASSUME NotificationsIInv, NEW h \in Handler, NEW u \in Subscriber, NEW type \in NoteType,
           SendNotification(h, u, type)
    PROVE  NotificationsIInv'
<1> DEFINE sender == [NoSender EXCEPT !.user = u, !.type = type]
           asked == [sender EXCEPT !.at = "default"]
           state == IF preferences[u] = None THEN asked
                    ELSE WithChannels(sender, ChannelsFor(type, preferences[u]))
<1>1. /\ senders[h].at = "idle"
      /\ SenderGoes(h, state)
      /\ UNCHANGED <<notes, preferences, delivered, abandoned, chosen>>
  BY DEF SendNotification
<1>2. IsSender(sender) /\ IsSender(asked) /\ asked.at = "default" /\ asked.note = None
  BY DEF IsSender, NoSender
<1>3. senders[h].note = None
  BY <1>1 DEF NotificationsIInv, SendersInv, Relies
<1> HIDE DEF sender, asked
<1>4. IsSender(state) /\ Relies(state, delivered')
  BY <1>1, <1>2, NextChannel DEF Relies
<1> HIDE DEF state
<1>5. ChosenPreferencesKept' /\ preferences' = [v \in Subscriber |-> preferences'[v]]
  BY <1>1 DEF NotificationsIInv, NotificationsShape, ChosenPreferencesKept
<1>6. QED
  BY <1>1, <1>3, <1>4, <1>5, OnlySender

LEMMA GetPreferencesStep ==
    ASSUME NotificationsIInv, NEW h \in Handler, NEW u \in Subscriber, GetPreferences(h, u)
    PROVE  NotificationsIInv'
<1> DEFINE state == [NoSender EXCEPT !.at = "default", !.user = u]
<1>1. /\ senders[h].at = "idle"
      /\ SenderGoes(h, state)
      /\ UNCHANGED <<notes, preferences, delivered, abandoned, chosen>>
  BY DEF GetPreferences
<1>2. IsSender(state) /\ Relies(state, delivered')
  BY DEF IsSender, Relies, NoSender
<1>3. senders[h].note = None
  BY <1>1 DEF NotificationsIInv, SendersInv, Relies
<1> HIDE DEF state
<1>4. ChosenPreferencesKept' /\ preferences' = [v \in Subscriber |-> preferences'[v]]
  BY <1>1 DEF NotificationsIInv, NotificationsShape, ChosenPreferencesKept
<1>5. QED
  BY <1>1, <1>2, <1>3, <1>4, OnlySender

\* Where the defaults are stored, the user has chosen nothing.
LEMMA CreateDefaultPreferencesStep ==
    ASSUME NotificationsIInv, NEW h \in Handler, CreateDefaultPreferences(h)
    PROVE  NotificationsIInv'
<1> DEFINE u == senders[h].user
           type == senders[h].type
           next == IF type = None THEN NoSender
                   ELSE WithChannels(senders[h], ChannelsFor(type, Default))
           state == IF preferences[u] # None THEN NoSender ELSE next
<1>1. /\ senders[h].at = "default"
      /\ SenderGoes(h, state)
      /\ UNCHANGED <<notes, delivered, abandoned, chosen>>
      /\ IF preferences[u] # None THEN UNCHANGED preferences
         ELSE preferences' = [preferences EXCEPT ![u] = Default]
  BY DEF CreateDefaultPreferences
<1>2. IsSender(senders[h]) /\ senders[h].note = None
  BY <1>1 DEF NotificationsIInv, SendersInv, Relies
<1>3. IsSender(state) /\ Relies(state, delivered')
  BY <1>2, NextChannel, IdleSender
<1> HIDE DEF state, next, type
<1>4. preferences' = [v \in Subscriber |-> preferences'[v]]
  BY <1>1 DEF NotificationsIInv, NotificationsShape
<1>5. ChosenPreferencesKept'
  BY <1>1 DEF NotificationsIInv, NotificationsShape, ChosenPreferencesKept
<1>6. QED
  BY <1>1, <1>2, <1>3, <1>4, <1>5, OnlySender

LEMMA SendEmailStep ==
    ASSUME NotificationsIInv, NEW h \in Handler, SendEmail(h)
    PROVE  NotificationsIInv'
<1>1. IsSender(senders[h])
  BY DEF NotificationsIInv, SendersInv
<1>2. PICK stage \in {"sent", "failed"} :
          /\ SenderGoes(h, [senders[h] EXCEPT !.at = stage])
          /\ delivered \subseteq delivered'
          /\ stage = "sent" => senders[h].note \in delivered'
          /\ UNCHANGED <<notes, preferences, abandoned, chosen>>
  BY DEF SendEmail
<1> DEFINE state == [senders[h] EXCEPT !.at = stage]
<1>3. IsSender(state) /\ state.at = stage /\ state.note = senders[h].note
  BY <1>1 DEF IsSender
<1>4. SenderGoes(h, state)
  BY <1>2
<1> HIDE DEF state
<1>5. Relies(state, delivered')
  BY <1>2, <1>3 DEF Relies
<1>6. ChosenPreferencesKept' /\ preferences' = [v \in Subscriber |-> preferences'[v]]
  BY <1>2 DEF NotificationsIInv, NotificationsShape, ChosenPreferencesKept
<1>7. QED
  BY <1>2, <1>3, <1>4, <1>5, <1>6, OnlySender

LEMMA AbandonSendingStep ==
    ASSUME NotificationsIInv, NEW h \in Handler, AbandonSending(h)
    PROVE  NotificationsIInv'
<1>1. /\ SenderGoes(h, NoSender)
      /\ abandoned' = abandoned \cup ({senders[h].note} \ {None})
      /\ UNCHANGED <<notes, preferences, delivered, chosen>>
  BY DEF AbandonSending
<1>2. Relies(NoSender, delivered')
  BY DEF Relies, NoSender
<1>3. ChosenPreferencesKept' /\ preferences' = [v \in Subscriber |-> preferences'[v]]
  BY <1>1 DEF NotificationsIInv, NotificationsShape, ChosenPreferencesKept
<1>4. QED
  BY <1>1, <1>2, <1>3, IdleSender, OnlySender

-----------------------------------------------------------------------------
(* One notification changes.                                               *)

\* The sender of a notification that is Pending has it in hand afterwards, and
\* one it had in hand before is no longer Pending.
LEMMA NoteSaved ==
    ASSUME NotificationsIInv, NEW h \in Handler, NEW state, SenderGoes(h, state),
           IsSender(state), Relies(state, delivered'), delivered \subseteq delivered',
           UNCHANGED <<preferences, abandoned, chosen>>,
           NEW n \in NoteId, NEW doc, notes' = [notes EXCEPT ![n] = doc],
           IsNote(doc), doc.sentAt => n \in delivered',
           doc.status = "Pending" => state.note = n,
           senders[h].note \in {None, n, state.note}
    PROVE  NotificationsIInv'
<1>1. /\ SendersInv'
      /\ senders' = [g \in Handler |-> senders'[g]]
      /\ senders'[h] = state
      /\ \A g \in Handler : g # h => senders'[g] = senders[g]
  BY SendersMove
<1>2. /\ notes' = [m \in NoteId |-> notes'[m]]
      /\ notes'[n] = doc
      /\ \A m \in NoteId : m # n => notes'[m] = notes[m]
  BY DEF NotificationsIInv, NotificationsShape
<1>3. Note' \subseteq NoteId /\ \A m \in Note' : m # n => m \in Note
  BY <1>2 DEF Note, StoredIn, NotificationsIInv, NotificationsShape
<1>4. \A m \in Note' : IsNote(notes'[m])
  BY <1>2, <1>3 DEF NotificationsIInv, NotesInv
<1>5. SentWasDelivered'
  BY <1>2, <1>3 DEF NotificationsIInv, NotesInv, SentWasDelivered
<1>6. PendingIsInHand'
  <2> SUFFICES ASSUME NEW m \in Note', notes'[m].status = "Pending"
               PROVE  m \in abandoned' \cup {senders'[g].note : g \in Handler}
    BY DEF PendingIsInHand
  <2>1. CASE m = n
    BY <1>1, <1>2, <2>1
  <2>2. CASE m # n
    <3>1. m \in abandoned \/ \E g \in Handler : m = senders[g].note
      BY <1>2, <1>3, <2>2 DEF NotificationsIInv, NotesInv, PendingIsInHand
    <3>2. m # None
      BY <1>3, NoneIsNoNote
    <3>3. QED
      BY <1>1, <2>2, <3>1, <3>2
  <2>3. QED
    BY <2>1, <2>2
<1>7. ChosenPreferencesKept' /\ preferences' = [v \in Subscriber |-> preferences'[v]]
          /\ chosen' = [v \in Subscriber |-> chosen'[v]]
  BY DEF NotificationsIInv, NotificationsShape, ChosenPreferencesKept
<1>8. QED
  BY <1>1, <1>2, <1>4, <1>5, <1>6, <1>7 DEF NotificationsIInv, NotificationsShape, NotesInv

LEMMA CreateNotificationStep ==
    ASSUME NotificationsIInv, NEW h \in Handler, CreateNotification(h)
    PROVE  NotificationsIInv'
<1> DEFINE channel == Head(senders[h].todo)
           stage == IF channel = "Email" THEN "mail" ELSE "sent"
           doc == [user |-> senders[h].user, channel |-> channel,
                   status |-> "Pending", sentAt |-> FALSE, readAt |-> FALSE,
                   retryCount |-> 0]
<1>1. PICK n \in UnusedIn(notes) :
          /\ notes' = [notes EXCEPT ![n] = doc]
          /\ SenderGoes(h, [senders[h] EXCEPT !.at = stage, !.note = n])
  BY DEF CreateNotification
<1> DEFINE state == [senders[h] EXCEPT !.at = stage, !.note = n]
<1>2. senders[h].at = "create" /\ UNCHANGED <<preferences, delivered, abandoned, chosen>>
  BY DEF CreateNotification
<1>3. IsSender(senders[h]) /\ senders[h].note = None
  BY <1>2 DEF NotificationsIInv, SendersInv, Relies
<1>4. /\ IsSender(state)
      /\ state.at = stage
      /\ state.note = n
      /\ Head(state.todo) = channel
  BY <1>3 DEF IsSender
<1>5. IsNote(doc) /\ ~doc.sentAt
  BY DEF IsNote
<1>6. n \in NoteId
  BY DEF UnusedIn, NotificationsIInv, NotificationsShape
<1>7. SenderGoes(h, state)
  BY <1>1
<1>8. stage \in {"mail", "sent"} /\ (stage = "sent" => channel # "Email")
  OBVIOUS
<1> HIDE DEF state, stage, channel, doc
<1>9. Relies(state, delivered')
  BY <1>4, <1>8 DEF Relies
<1>10. QED
  BY <1>1, <1>2, <1>3, <1>4, <1>5, <1>6, <1>7, <1>9, NoteSaved

LEMMA SaveSentStep ==
    ASSUME NotificationsIInv, NEW h \in Handler, SaveSent(h)
    PROVE  NotificationsIInv'
<1> DEFINE n == senders[h].note
           state == WithChannels(senders[h], Tail(senders[h].todo))
           failed == [senders[h] EXCEPT !.at = "failed"]
           doc == [notes[n] EXCEPT !.status = "Sent", !.sentAt = TRUE]
<1>1. /\ senders[h].at = "sent"
      /\ delivered' = Taken(h)
      /\ UNCHANGED <<preferences, abandoned, chosen>>
  BY DEF SaveSent
<1>2. IsSender(senders[h]) /\ Relies(senders[h], delivered)
  BY DEF NotificationsIInv, SendersInv
<1>3. n \in delivered' /\ delivered \subseteq delivered'
  BY <1>1, <1>2 DEF Taken, Relies
<1>4. CASE n \in Note /\ SenderGoes(h, state)
           /\ notes' = [notes EXCEPT ![n].status = "Sent", ![n].sentAt = TRUE]
  <2>1. n \in NoteId /\ IsNote(notes[n])
    BY <1>4 DEF Note, StoredIn, NotificationsIInv, NotificationsShape, NotesInv
  <2>2. IsNote(doc) /\ doc.status = "Sent"
    BY <2>1 DEF IsNote
  <2>3. notes' = [notes EXCEPT ![n] = doc]
    BY <1>4, <2>1 DEF NotificationsIInv, NotificationsShape
  <2>4. IsSender(state) /\ Relies(state, delivered') /\ state.note = None
    BY <1>2, NextChannel
  <2>5. SenderGoes(h, state)
    BY <1>4
  <2> HIDE DEF state, doc
  <2>6. QED
    BY <1>1, <1>3, <2>1, <2>2, <2>3, <2>4, <2>5, NoteSaved
<1>5. CASE SenderGoes(h, failed) /\ UNCHANGED notes
  <2>1. IsSender(failed) /\ failed.at = "failed" /\ failed.note = senders[h].note
    BY <1>2 DEF IsSender
  <2>2. SenderGoes(h, failed)
    BY <1>5
  <2> HIDE DEF failed
  <2>3. Relies(failed, delivered')
    BY <2>1 DEF Relies
  <2>4. ChosenPreferencesKept' /\ preferences' = [v \in Subscriber |-> preferences'[v]]
    BY <1>1 DEF NotificationsIInv, NotificationsShape, ChosenPreferencesKept
  <2>5. QED
    BY <1>1, <1>3, <1>5, <2>1, <2>2, <2>3, <2>4, OnlySender
<1>6. QED
  BY <1>4, <1>5 DEF SaveSent

LEMMA SaveFailedStep ==
    ASSUME NotificationsIInv, NEW h \in Handler, SaveFailed(h)
    PROVE  NotificationsIInv'
<1> DEFINE n == senders[h].note
           state == WithChannels(senders[h], Tail(senders[h].todo))
           doc == [notes[n] EXCEPT !.status = "Failed", !.retryCount = 1,
                                   !.sentAt = @ \/ n \in delivered]
<1>1. /\ n \in Note
      /\ notes' = [notes EXCEPT ![n] = doc]
      /\ SenderGoes(h, state)
      /\ UNCHANGED <<preferences, delivered, abandoned, chosen>>
  BY DEF SaveFailed
<1>2. n \in NoteId /\ IsNote(notes[n])
  BY <1>1 DEF Note, StoredIn, NotificationsIInv, NotificationsShape, NotesInv
<1>3. IsNote(doc) /\ doc.status = "Failed"
  BY <1>2 DEF IsNote
<1>4. doc.sentAt => n \in delivered
  <2>1. doc.sentAt <=> notes[n].sentAt \/ n \in delivered
    BY <1>2 DEF IsNote
  <2>2. QED
    BY <1>1, <2>1 DEF NotificationsIInv, NotesInv, SentWasDelivered
<1>5. IsSender(state) /\ Relies(state, delivered') /\ state.note = None
  BY NextChannel DEF NotificationsIInv, SendersInv
<1> HIDE DEF state, doc
<1>6. QED
  BY <1>1, <1>2, <1>3, <1>4, <1>5, NoteSaved

-----------------------------------------------------------------------------
(* The user.                                                               *)

\* Notifications are read or removed: none becomes Pending or sent by it.
LEMMA OnlyNotes ==
    ASSUME NotificationsIInv, notes' = [n \in NoteId |-> notes'[n]],
           UNCHANGED <<preferences, senders, delivered, abandoned, chosen>>,
           \A n \in Note' :
              /\ n \in Note
              /\ IsNote(notes'[n])
              /\ notes'[n].sentAt = notes[n].sentAt
              /\ notes'[n].status \in {notes[n].status, "Read"}
    PROVE  NotificationsIInv'
<1>1. SentWasDelivered'
  BY DEF NotificationsIInv, NotesInv, SentWasDelivered
<1>2. PendingIsInHand'
  BY DEF NotificationsIInv, NotesInv, PendingIsInHand
<1>3. SendersInv'
  BY DEF NotificationsIInv, SendersInv, Relies
<1>4. QED
  BY <1>1, <1>2, <1>3 DEF NotificationsIInv, NotificationsShape, NotesInv, ChosenPreferencesKept

\* What reading does to a notification.
LEMMA ReadNote ==
    ASSUME NEW d, IsNote(d)
    PROVE  LET read == [d EXCEPT !.status = "Read", !.readAt = TRUE]
           IN  /\ IsNote(read)
               /\ read.readAt
               /\ read.sentAt = d.sentAt
               /\ read.status = "Read"
  BY DEF IsNote

LEMMA MarkAsReadStep ==
    ASSUME NotificationsIInv, NEW n \in NoteId, MarkAsRead(n)
    PROVE  NotificationsIInv'
<1> DEFINE doc == [notes[n] EXCEPT !.status = "Read", !.readAt = TRUE]
<1>1. n \in Note /\ UNCHANGED <<preferences, senders, delivered, abandoned, chosen>>
  BY DEF MarkAsRead
<1>2. notes' = [notes EXCEPT ![n] = doc]
  BY DEF MarkAsRead, NotificationsIInv, NotificationsShape
<1>3. IsNote(doc) /\ doc.sentAt = notes[n].sentAt /\ doc.status = "Read"
  BY <1>1, ReadNote DEF NotificationsIInv, NotesInv
<1> HIDE DEF doc
<1>4. /\ notes' = [m \in NoteId |-> notes'[m]]
      /\ notes'[n] = doc
      /\ \A m \in NoteId : m # n => notes'[m] = notes[m]
  BY <1>2 DEF NotificationsIInv, NotificationsShape
<1>5. ASSUME NEW m \in Note'
      PROVE  /\ m \in Note
             /\ IsNote(notes'[m])
             /\ notes'[m].sentAt = notes[m].sentAt
             /\ notes'[m].status \in {notes[m].status, "Read"}
  <2>1. m \in NoteId
    BY <1>4 DEF Note, StoredIn
  <2>2. CASE m = n
    BY <1>1, <1>3, <1>4, <2>2
  <2>3. CASE m # n
    <3>1. m \in Note
      BY <1>4, <2>1, <2>3 DEF Note, StoredIn, NotificationsIInv, NotificationsShape
    <3>2. QED
      BY <1>4, <2>1, <2>3, <3>1 DEF NotificationsIInv, NotesInv
  <2>4. QED
    BY <2>2, <2>3
<1>6. QED
  BY <1>1, <1>4, <1>5, OnlyNotes

LEMMA MarkAllAsReadStep ==
    ASSUME NotificationsIInv, NEW u \in Subscriber, MarkAllAsRead(u)
    PROVE  NotificationsIInv'
<1>1. /\ notes' = [n \in NoteId |->
                    IF n \in Note /\ notes[n].user = u /\ ~notes[n].readAt
                    THEN [notes[n] EXCEPT !.status = "Read", !.readAt = TRUE]
                    ELSE notes[n]]
      /\ UNCHANGED <<preferences, senders, delivered, abandoned, chosen>>
  BY DEF MarkAllAsRead
<1>2. notes' = [n \in NoteId |-> notes'[n]]
  BY <1>1
<1>3. ASSUME NEW m \in Note'
      PROVE  /\ m \in Note
             /\ IsNote(notes'[m])
             /\ notes'[m].sentAt = notes[m].sentAt
             /\ notes'[m].status \in {notes[m].status, "Read"}
  <2>1. m \in NoteId /\ notes'[m] \notin {None, Deleted}
    BY <1>2 DEF Note, StoredIn
  <2>2. m \in Note
    BY <1>1, <2>1 DEF Note, StoredIn, NotificationsIInv, NotificationsShape
  <2>3. IsNote(notes[m])
    BY <2>2 DEF NotificationsIInv, NotesInv
  <2>4. CASE notes'[m] = notes[m]
    BY <2>2, <2>3, <2>4
  <2>5. CASE notes'[m] = [notes[m] EXCEPT !.status = "Read", !.readAt = TRUE]
    <3> DEFINE read == [notes[m] EXCEPT !.status = "Read", !.readAt = TRUE]
    <3>1. IsNote(read) /\ read.sentAt = notes[m].sentAt /\ read.status = "Read"
      BY <2>3, ReadNote
    <3>2. notes'[m] = read
      BY <2>5
    <3> HIDE DEF read
    <3>3. QED
      BY <2>2, <3>1, <3>2
  <2>6. QED
    BY <1>1, <2>1, <2>4, <2>5
<1>4. QED
  BY <1>1, <1>2, <1>3, OnlyNotes

LEMMA DeleteNotificationStep ==
    ASSUME NotificationsIInv, NEW n \in NoteId, DeleteNotification(n)
    PROVE  NotificationsIInv'
<1>1. /\ notes' = [notes EXCEPT ![n] = Deleted]
      /\ UNCHANGED <<preferences, senders, delivered, abandoned, chosen>>
  BY DEF DeleteNotification
<1>2. /\ notes' = [m \in NoteId |-> notes'[m]]
      /\ \A m \in NoteId : notes'[m] \in {notes[m], Deleted}
  BY <1>1 DEF NotificationsIInv, NotificationsShape
<1>3. \A m \in Note' : m \in Note /\ notes'[m] = notes[m]
  BY <1>2 DEF Note, StoredIn, NotificationsIInv, NotificationsShape
<1>4. QED
  BY <1>1, <1>2, <1>3, OnlyNotes DEF NotificationsIInv, NotesInv

LEMMA UpdatePreferencesStep ==
    ASSUME NotificationsIInv, NEW u \in Subscriber, UpdatePreferences(u)
    PROVE  NotificationsIInv'
<1>1. UNCHANGED <<notes, senders, delivered, abandoned>>
  BY DEF UpdatePreferences
<1>2. PICK doc : preferences' = [preferences EXCEPT ![u] = doc]
  BY DEF UpdatePreferences
<1>3. chosen' = [chosen EXCEPT ![u] = preferences'[u]]
  BY DEF UpdatePreferences
<1>4. preferences' = [v \in Subscriber |-> preferences'[v]]
          /\ chosen' = [v \in Subscriber |-> chosen'[v]]
  BY <1>2, <1>3 DEF NotificationsIInv, NotificationsShape
<1>5. ChosenPreferencesKept'
  BY <1>2, <1>3 DEF NotificationsIInv, NotificationsShape, ChosenPreferencesKept
<1>6. SendersInv'
  BY <1>1 DEF NotificationsIInv, SendersInv, Relies
<1>7. NotesInv'
  BY <1>1 DEF NotificationsIInv, NotesInv, SentWasDelivered, PendingIsInHand, Note
<1>8. QED
  BY <1>1, <1>4, <1>5, <1>6, <1>7 DEF NotificationsIInv, NotificationsShape

-----------------------------------------------------------------------------
(* The theorems.                                                           *)

LEMMA NotificationsNextIInv == NotificationsIInv /\ [NotificationsNext]_notificationsVars => NotificationsIInv'
<1> SUFFICES ASSUME NotificationsIInv, [NotificationsNext]_notificationsVars PROVE NotificationsIInv'
  OBVIOUS
<1>1. ASSUME NEW h \in Handler, SenderStep(h) PROVE NotificationsIInv'
  BY <1>1, SendNotificationStep, GetPreferencesStep, CreateDefaultPreferencesStep,
     CreateNotificationStep, SendEmailStep, SaveSentStep, SaveFailedStep,
     AbandonSendingStep DEF SenderStep
<1>2. ASSUME NEW n \in NoteId, MarkAsRead(n) \/ DeleteNotification(n) PROVE NotificationsIInv'
  BY <1>2, MarkAsReadStep, DeleteNotificationStep
<1>3. ASSUME NEW u \in Subscriber, MarkAllAsRead(u) \/ UpdatePreferences(u)
      PROVE  NotificationsIInv'
  BY <1>3, MarkAllAsReadStep, UpdatePreferencesStep
<1>4. CASE UNCHANGED notificationsVars
  BY <1>4 DEF notificationsVars, NotificationsIInv, NotificationsShape, NotesInv, SendersInv, Relies, Note,
     SentWasDelivered, PendingIsInHand, ChosenPreferencesKept
<1>5. QED
  BY <1>1, <1>2, <1>3, <1>4 DEF NotificationsNext

LEMMA NotificationsInvariance == NotificationsSpec => []NotificationsIInv
  BY NotificationsInitIInv, NotificationsNextIInv, PTL DEF NotificationsSpec

\* A notification with a time of sending was taken by its channel, in whatever
\* order the outcome, reads and failures are saved (processNotification).
THEOREM SentDelivered == NotificationsSpec => []SentWasDelivered
<1>1. NotificationsIInv => SentWasDelivered
  BY DEF NotificationsIInv, NotesInv
<1>2. QED
  BY <1>1, NotificationsInvariance, PTL

\* A notification stays Pending only while it is being sent or after its
\* request ended with an error (createNotification, processNotification).
THEOREM PendingInHand == NotificationsSpec => []PendingIsInHand
<1>1. NotificationsIInv => PendingIsInHand
  BY DEF NotificationsIInv, NotesInv
<1>2. QED
  BY <1>1, NotificationsInvariance, PTL

\* The defaults never replace what a user chose, however many requests create
\* them at once (getPreferences, createDefaultPreferences).
THEOREM ChosenKept == NotificationsSpec => []ChosenPreferencesKept
<1>1. NotificationsIInv => ChosenPreferencesKept
  BY DEF NotificationsIInv
<1>2. QED
  BY <1>1, NotificationsInvariance, PTL

\* No step takes back that a notification was read.
LEMMA StepKeepsReadMark ==
    ASSUME NotificationsIInv, [NotificationsNext]_notificationsVars, NEW n \in Note,
           notes[n].readAt
    PROVE  notes'[n] = Deleted \/ notes'[n].readAt
<1>1. n \in NoteId /\ IsNote(notes[n])
  BY DEF Note, StoredIn, NotificationsIInv, NotificationsShape, NotesInv
<1>2. CASE notes'[n] = notes[n]
  BY <1>2
<1>3. ASSUME NEW h \in Handler, CreateNotification(h) PROVE notes'[n] = notes[n]
  BY <1>1, <1>3 DEF CreateNotification, UnusedIn, Note, StoredIn, NotificationsIInv, NotificationsShape
<1>4. ASSUME NEW h \in Handler, SaveSent(h), notes'[n] # notes[n]
      PROVE  notes'[n].readAt
  <2>1. notes' = [notes EXCEPT ![n].status = "Sent", ![n].sentAt = TRUE]
    BY <1>1, <1>4 DEF SaveSent, NotificationsIInv, NotificationsShape
  <2>2. notes'[n] = [notes[n] EXCEPT !.status = "Sent", !.sentAt = TRUE]
    BY <1>1, <2>1 DEF NotificationsIInv, NotificationsShape
  <2>3. QED
    BY <1>1, <2>2 DEF IsNote
<1>5. ASSUME NEW h \in Handler, SaveFailed(h), notes'[n] # notes[n]
      PROVE  notes'[n].readAt
  <2>1. notes' = [notes EXCEPT ![n] = [notes[n] EXCEPT
                        !.status = "Failed", !.retryCount = 1,
                        !.sentAt = @ \/ n \in delivered]]
    BY <1>1, <1>5 DEF SaveFailed, NotificationsIInv, NotificationsShape
  <2>2. notes'[n] = [notes[n] EXCEPT !.status = "Failed", !.retryCount = 1,
                        !.sentAt = @ \/ n \in delivered]
    BY <1>1, <2>1 DEF NotificationsIInv, NotificationsShape
  <2>3. QED
    BY <1>1, <2>2 DEF IsNote
<1>6. ASSUME NEW h \in Handler, SenderStep(h)
      PROVE  notes'[n] = Deleted \/ notes'[n].readAt
  BY <1>2, <1>3, <1>4, <1>5, <1>6 DEF SenderStep, SendNotification, GetPreferences,
     CreateDefaultPreferences, SendEmail, AbandonSending
<1>7. ASSUME NEW m \in NoteId, MarkAsRead(m) \/ DeleteNotification(m)
      PROVE  notes'[n] = Deleted \/ notes'[n].readAt
  <2>1. CASE m # n
    BY <1>1, <1>2, <1>7, <2>1 DEF MarkAsRead, DeleteNotification, NotificationsIInv, NotificationsShape
  <2>2. CASE m = n /\ DeleteNotification(m)
    BY <1>1, <2>2 DEF DeleteNotification, NotificationsIInv, NotificationsShape
  <2>3. CASE m = n /\ MarkAsRead(m)
    <3>1. notes'[n] = [notes[n] EXCEPT !.status = "Read", !.readAt = TRUE]
      BY <1>1, <2>3 DEF MarkAsRead, NotificationsIInv, NotificationsShape
    <3>2. QED
      BY <1>1, <3>1, ReadNote
  <2>4. QED
    BY <1>7, <2>1, <2>2, <2>3
<1>8. ASSUME NEW u \in Subscriber, MarkAllAsRead(u) \/ UpdatePreferences(u)
      PROVE  notes'[n] = Deleted \/ notes'[n].readAt
  <2>1. CASE MarkAllAsRead(u)
    BY <1>1, <2>1 DEF MarkAllAsRead
  <2>2. CASE UpdatePreferences(u)
    BY <1>2, <2>2 DEF UpdatePreferences
  <2>3. QED
    BY <1>8, <2>1, <2>2
<1>9. CASE UNCHANGED notificationsVars
  BY <1>2, <1>9 DEF notificationsVars
<1>10. QED
  BY <1>6, <1>7, <1>8, <1>9 DEF NotificationsNext

\* A notification once read never counts as unread again, although its sender
\* saves the document it created before (processNotification).
THEOREM ReadMark == NotificationsSpec => ReadMarkKept
<1>1. NotificationsIInv /\ [NotificationsNext]_notificationsVars
      => [\A n \in Note :
            notes[n].readAt => notes'[n] = Deleted \/ notes'[n].readAt]_notificationsVars
  BY StepKeepsReadMark
<1>2. QED
  BY <1>1, NotificationsInvariance, PTL DEF NotificationsSpec, ReadMarkKept

-----------------------------------------------------------------------------
(* Types, with what a sender carries on each of its ways.                  *)

SenderCarries(s) ==
    /\ s.at # "idle" => s.user \in Subscriber
    /\ s.at \in {"create", "mail", "sent", "failed"} => s.todo # <<>>
    /\ s.at \in {"mail", "sent", "failed"} => s.note \in NoteId

GoodSender(s) == s \in Sender /\ SenderCarries(s)

NotificationsTyped == NotificationsTypeOK /\ \A h \in Handler : GoodSender(senders[h])

LEMMA IdleIsGood == GoodSender(NoSender)
<1>1. <<>> \in Seq(Channel)
  OBVIOUS
<1>2. QED
  BY <1>1 DEF GoodSender, SenderCarries, NoSender, Sender, SenderStage

\* The channels that a preference leaves are channels.
LEMMA ChannelsAreChannels ==
    ASSUME NEW type, NEW preference
    PROVE  ChannelsFor(type, preference) \in Seq(Channel)
<1>1. Channels \in Seq(Channel)
  BY DEF Channels, Channel
<1>2. QED
  BY <1>1, Picked DEF ChannelsFor

LEMMA NextIsGood ==
    ASSUME NEW s, GoodSender(s), NEW todo \in Seq(Channel), s.user \in Subscriber
    PROVE  GoodSender(WithChannels(s, todo))
<1>1. CASE todo = <<>>
  BY <1>1, IdleIsGood DEF WithChannels
<1>2. CASE todo # <<>>
  BY <1>2 DEF WithChannels, GoodSender, SenderCarries, Sender, SenderStage
<1>3. QED
  BY <1>1, <1>2

LEMMA SendersGood ==
    ASSUME NotificationsTyped, NEW h \in Handler, NEW state, SenderGoes(h, state),
           GoodSender(state)
    PROVE  senders' \in [Handler -> Sender] /\ \A g \in Handler : GoodSender(senders'[g])
  BY DEF NotificationsTyped, NotificationsTypeOK, SenderGoes, GoodSender

LEMMA DefaultType == Default \in PreferenceDoc
  BY DEF Default, PreferenceDoc, Channel

LEMMA SenderStepTyped ==
    ASSUME NotificationsTyped, NEW h \in Handler, SenderStep(h)
    PROVE  NotificationsTyped'
<1>1. PICK s : s = senders[h] /\ GoodSender(s) /\ s \in Sender
  BY DEF NotificationsTyped, GoodSender
<1>2. s.todo \in Seq(Channel) /\ s.note \in NoteId \cup {None}
  BY <1>1 DEF Sender
<1>3. ASSUME NEW u \in Subscriber, NEW type \in NoteType, SendNotification(h, u, type)
      PROVE  NotificationsTyped'
  <2> DEFINE sender == [NoSender EXCEPT !.user = u, !.type = type]
             asked == [sender EXCEPT !.at = "default"]
             todo == ChannelsFor(type, preferences[u])
             state == IF preferences[u] = None THEN asked ELSE WithChannels(sender, todo)
  <2>1. SenderGoes(h, state) /\ UNCHANGED <<notes, preferences, delivered, abandoned, chosen>>
    BY <1>3 DEF SendNotification
  <2>2. GoodSender(sender) /\ GoodSender(asked) /\ sender.user \in Subscriber
    <3>1. <<>> \in Seq(Channel)
      OBVIOUS
    <3>2. QED
      BY <3>1 DEF GoodSender, SenderCarries, NoSender, Sender, SenderStage
  <2> HIDE DEF sender, asked, todo
  <2>3. todo \in Seq(Channel)
    BY ChannelsAreChannels DEF todo
  <2>4. GoodSender(state)
    BY <2>2, <2>3, NextIsGood
  <2> HIDE DEF state
  <2>5. QED
    BY <2>1, <2>4, SendersGood DEF NotificationsTyped, NotificationsTypeOK
<1>4. ASSUME NEW u \in Subscriber, GetPreferences(h, u)
      PROVE  NotificationsTyped'
  <2> DEFINE state == [NoSender EXCEPT !.at = "default", !.user = u]
  <2>1. SenderGoes(h, state) /\ UNCHANGED <<notes, preferences, delivered, abandoned, chosen>>
    BY <1>4 DEF GetPreferences
  <2>2. GoodSender(state)
    <3>1. <<>> \in Seq(Channel)
      OBVIOUS
    <3>2. QED
      BY <3>1 DEF GoodSender, SenderCarries, NoSender, Sender, SenderStage
  <2> HIDE DEF state
  <2>3. QED
    BY <2>1, <2>2, SendersGood DEF NotificationsTyped, NotificationsTypeOK
<1>5. CASE CreateDefaultPreferences(h)
  <2> DEFINE todo == ChannelsFor(s.type, Default)
             next == IF s.type = None THEN NoSender ELSE WithChannels(s, todo)
             state == IF preferences[s.user] # None THEN NoSender ELSE next
  <2>1. /\ s.at = "default"
        /\ SenderGoes(h, state)
        /\ UNCHANGED <<notes, delivered, abandoned, chosen>>
        /\ \/ UNCHANGED preferences
           \/ preferences' = [preferences EXCEPT ![s.user] = Default]
    BY <1>1, <1>5 DEF CreateDefaultPreferences
  <2>2. s.user \in Subscriber
    BY <1>1, <2>1 DEF GoodSender, SenderCarries
  <2>3. todo \in Seq(Channel)
    BY ChannelsAreChannels
  <2> HIDE DEF todo
  <2>4. GoodSender(state)
    BY <1>1, <2>2, <2>3, NextIsGood, IdleIsGood
  <2> HIDE DEF state
  <2>5. preferences' \in [Subscriber -> PreferenceDoc \cup {None}]
    BY <2>1, DefaultType DEF NotificationsTyped, NotificationsTypeOK
  <2>6. QED
    BY <2>1, <2>4, <2>5, SendersGood DEF NotificationsTyped, NotificationsTypeOK
<1>6. CASE CreateNotification(h)
  <2>1. PICK n, channel, doc, stage :
            /\ n \in UnusedIn(notes)
            /\ s.at = "create"
            /\ channel = Head(s.todo)
            /\ doc = [user |-> s.user, channel |-> channel, status |-> "Pending",
                      sentAt |-> FALSE, readAt |-> FALSE, retryCount |-> 0]
            /\ notes' = [notes EXCEPT ![n] = doc]
            /\ stage \in {"mail", "sent"}
            /\ SenderGoes(h, [s EXCEPT !.at = stage, !.note = n])
            /\ UNCHANGED <<preferences, delivered, abandoned, chosen>>
    BY <1>1, <1>6 DEF CreateNotification
  <2> DEFINE state == [s EXCEPT !.at = stage, !.note = n]
  <2>2. n \in NoteId
    BY <2>1 DEF UnusedIn, NotificationsTyped, NotificationsTypeOK
  <2>3. s.todo # <<>> /\ s.user \in Subscriber
    BY <1>1, <2>1 DEF GoodSender, SenderCarries
  <2>4. channel \in Channel
    BY <1>2, <2>1, <2>3
  <2>5. doc \in NoteDoc
    BY <2>1, <2>3, <2>4 DEF NoteDoc, NoteStatus
  <2>6. GoodSender(state)
    BY <1>1, <2>1, <2>2, <2>3 DEF GoodSender, SenderCarries, Sender, SenderStage
  <2>7. SenderGoes(h, state)
    BY <2>1
  <2> HIDE DEF state
  <2>8. notes' \in [NoteId -> NoteDoc \cup {None, Deleted}]
    BY <2>1, <2>5 DEF NotificationsTyped, NotificationsTypeOK
  <2>9. QED
    BY <2>1, <2>6, <2>7, <2>8, SendersGood DEF NotificationsTyped, NotificationsTypeOK
<1>7. CASE SendEmail(h)
  <2>1. PICK stage \in {"sent", "failed"} :
            /\ s.at = "mail"
            /\ SenderGoes(h, [s EXCEPT !.at = stage])
            /\ delivered' \in {delivered, delivered \cup {s.note}}
            /\ UNCHANGED <<notes, preferences, abandoned, chosen>>
    BY <1>1, <1>7 DEF SendEmail
  <2> DEFINE state == [s EXCEPT !.at = stage]
  <2>2. GoodSender(state) /\ s.note \in NoteId
    BY <1>1, <2>1 DEF GoodSender, SenderCarries, Sender, SenderStage
  <2>3. SenderGoes(h, state)
    BY <2>1
  <2> HIDE DEF state
  <2>4. delivered' \subseteq NoteId
    BY <2>1, <2>2 DEF NotificationsTyped, NotificationsTypeOK
  <2>5. QED
    BY <2>1, <2>2, <2>3, <2>4, SendersGood DEF NotificationsTyped, NotificationsTypeOK
\* What is left to send after a channel.
<1>8. s.at \in {"sent", "failed"} =>
          /\ s.note \in NoteId /\ s.user \in Subscriber
          /\ GoodSender(WithChannels(s, Tail(s.todo)))
  <2> HAVE s.at \in {"sent", "failed"}
  <2>1. s.note \in NoteId /\ s.user \in Subscriber /\ s.todo # <<>>
    BY <1>1 DEF GoodSender, SenderCarries
  <2>2. Tail(s.todo) \in Seq(Channel)
    BY <1>2, <2>1
  <2>3. QED
    BY <1>1, <2>1, <2>2, NextIsGood
<1>9. CASE SaveSent(h)
  <2>1. /\ s.at = "sent"
        /\ delivered' \subseteq delivered \cup {s.note}
        /\ UNCHANGED <<preferences, abandoned, chosen>>
    BY <1>1, <1>9 DEF SaveSent, Taken
  <2>2. delivered' \subseteq NoteId
    BY <1>8, <2>1 DEF NotificationsTyped, NotificationsTypeOK
  <2>3. CASE /\ s.note \in Note
             /\ notes' = [notes EXCEPT ![s.note].status = "Sent", ![s.note].sentAt = TRUE]
             /\ SenderGoes(h, WithChannels(s, Tail(s.todo)))
    <3>1. notes[s.note] \in NoteDoc
      BY <2>3 DEF Note, StoredIn, NotificationsTyped, NotificationsTypeOK
    <3> DEFINE doc == [notes[s.note] EXCEPT !.status = "Sent", !.sentAt = TRUE]
    <3>2. doc \in NoteDoc
      BY <3>1 DEF NoteDoc, NoteStatus
    <3>3. notes' = [notes EXCEPT ![s.note] = doc]
      BY <1>8, <2>1, <2>3 DEF NotificationsTyped, NotificationsTypeOK
    <3> HIDE DEF doc
    <3>4. notes' \in [NoteId -> NoteDoc \cup {None, Deleted}]
      BY <3>2, <3>3 DEF NotificationsTyped, NotificationsTypeOK
    <3>5. QED
      BY <1>8, <2>1, <2>2, <2>3, <3>4, SendersGood DEF NotificationsTyped, NotificationsTypeOK
  <2>4. CASE SenderGoes(h, [s EXCEPT !.at = "failed"]) /\ UNCHANGED notes
    <3> DEFINE state == [s EXCEPT !.at = "failed"]
    <3>1. GoodSender(state)
      BY <1>1, <2>1 DEF GoodSender, SenderCarries, Sender, SenderStage
    <3>2. SenderGoes(h, state)
      BY <2>4
    <3> HIDE DEF state
    <3>3. QED
      BY <2>1, <2>2, <2>4, <3>1, <3>2, SendersGood DEF NotificationsTyped, NotificationsTypeOK
  <2>5. QED
    BY <1>1, <1>9, <2>3, <2>4 DEF SaveSent
<1>10. CASE SaveFailed(h)
  <2>1. PICK sent \in BOOLEAN :
            /\ s.at = "failed" /\ s.note \in Note
            /\ notes' = [notes EXCEPT ![s.note] = [notes[s.note] EXCEPT
                              !.status = "Failed", !.retryCount = 1, !.sentAt = sent]]
            /\ SenderGoes(h, WithChannels(s, Tail(s.todo)))
            /\ UNCHANGED <<preferences, delivered, abandoned, chosen>>
    BY <1>1, <1>10 DEF SaveFailed
  <2> DEFINE doc == [notes[s.note] EXCEPT !.status = "Failed", !.retryCount = 1,
                                          !.sentAt = sent]
  <2>2. notes[s.note] \in NoteDoc
    BY <2>1 DEF Note, StoredIn, NotificationsTyped, NotificationsTypeOK
  <2>3. doc \in NoteDoc
    BY <2>2 DEF NoteDoc, NoteStatus
  <2>4. notes' = [notes EXCEPT ![s.note] = doc]
    BY <2>1
  <2> HIDE DEF doc
  <2>5. notes' \in [NoteId -> NoteDoc \cup {None, Deleted}]
    BY <2>3, <2>4 DEF NotificationsTyped, NotificationsTypeOK
  <2>6. QED
    BY <1>8, <2>1, <2>5, SendersGood DEF NotificationsTyped, NotificationsTypeOK
<1>11. CASE AbandonSending(h)
  <2>1. /\ SenderGoes(h, NoSender)
        /\ abandoned' = abandoned \cup ({s.note} \ {None})
        /\ UNCHANGED <<notes, preferences, delivered, chosen>>
    BY <1>1, <1>11 DEF AbandonSending
  <2>2. abandoned' \subseteq NoteId
    BY <1>2, <2>1 DEF NotificationsTyped, NotificationsTypeOK
  <2>3. QED
    BY <2>1, <2>2, IdleIsGood, SendersGood DEF NotificationsTyped, NotificationsTypeOK
<1>12. QED
  BY <1>3, <1>4, <1>5, <1>6, <1>7, <1>9, <1>10, <1>11 DEF SenderStep

LEMMA UserStepTyped ==
    ASSUME NotificationsTyped, NEW u \in Subscriber, MarkAllAsRead(u) \/ UpdatePreferences(u)
    PROVE  NotificationsTyped'
<1>1. CASE MarkAllAsRead(u)
  <2>1. ASSUME NEW n \in NoteId PROVE notes'[n] \in NoteDoc \cup {None, Deleted}
    <3>1. CASE n \in Note
      <4>1. notes[n] \in NoteDoc
        BY <3>1 DEF Note, StoredIn, NotificationsTyped, NotificationsTypeOK
      <4>2. [notes[n] EXCEPT !.status = "Read", !.readAt = TRUE] \in NoteDoc
        BY <4>1 DEF NoteDoc, NoteStatus
      <4>3. QED
        BY <1>1, <4>1, <4>2 DEF MarkAllAsRead
    <3>2. CASE n \notin Note
      BY <1>1, <3>2 DEF MarkAllAsRead, NotificationsTyped, NotificationsTypeOK
    <3>3. QED
      BY <3>1, <3>2
  <2>2. notes' = [n \in NoteId |-> notes'[n]]
    BY <1>1 DEF MarkAllAsRead
  <2>3. notes' \in [NoteId -> NoteDoc \cup {None, Deleted}]
    BY <2>1, <2>2
  <2>4. QED
    BY <1>1, <2>3 DEF MarkAllAsRead, NotificationsTyped, NotificationsTypeOK
<1>2. CASE UpdatePreferences(u)
  <2>1. PICK before :
            /\ before = IF preferences[u] = None THEN Default ELSE preferences[u]
            /\ \/ \E muted \in MutedChoice :
                    preferences' = [preferences EXCEPT
                                      ![u] = [before EXCEPT !.muted = muted]]
               \/ \E c \in Channel, types \in TypeChoice :
                    preferences' = [preferences EXCEPT
                                      ![u] = [before EXCEPT !.allowed[c] = types]]
    BY <1>2 DEF UpdatePreferences
  <2>2. /\ chosen' = [chosen EXCEPT ![u] = preferences'[u]]
        /\ UNCHANGED <<notes, senders, delivered, abandoned>>
    BY <1>2 DEF UpdatePreferences
  <2>3. before \in PreferenceDoc
    BY <2>1, DefaultType DEF NotificationsTyped, NotificationsTypeOK
  <2>4. PICK after \in PreferenceDoc : preferences' = [preferences EXCEPT ![u] = after]
    <3>1. ASSUME NEW muted \in MutedChoice
          PROVE  [before EXCEPT !.muted = muted] \in PreferenceDoc
      BY <2>3, NotificationsAssumption DEF PreferenceDoc
    <3>2. ASSUME NEW c \in Channel, NEW types \in TypeChoice
          PROVE  [before EXCEPT !.allowed[c] = types] \in PreferenceDoc
      BY <2>3, NotificationsAssumption DEF PreferenceDoc
    <3>3. QED
      BY <2>1, <3>1, <3>2
  <2>5. /\ preferences' \in [Subscriber -> PreferenceDoc \cup {None}]
        /\ preferences'[u] = after
    BY <2>4 DEF NotificationsTyped, NotificationsTypeOK
  <2>6. chosen' \in [Subscriber -> PreferenceDoc \cup {None}]
    BY <2>2, <2>5 DEF NotificationsTyped, NotificationsTypeOK
  <2>7. QED
    BY <2>2, <2>5, <2>6 DEF NotificationsTyped, NotificationsTypeOK
<1>3. QED
  BY <1>1, <1>2

LEMMA NotificationsStepTyped ==
    ASSUME NotificationsTyped, [NotificationsNext]_notificationsVars
    PROVE  NotificationsTyped'
<1>1. ASSUME NEW h \in Handler, SenderStep(h) PROVE NotificationsTyped'
  BY <1>1, SenderStepTyped
<1>2. ASSUME NEW n \in NoteId, MarkAsRead(n) PROVE NotificationsTyped'
  <2> DEFINE doc == [notes[n] EXCEPT !.status = "Read", !.readAt = TRUE]
  <2>1. notes[n] \in NoteDoc
    BY <1>2 DEF MarkAsRead, Note, StoredIn, NotificationsTyped, NotificationsTypeOK
  <2>2. doc \in NoteDoc
    BY <2>1 DEF NoteDoc, NoteStatus
  <2>3. notes' = [notes EXCEPT ![n] = doc]
    BY <1>2 DEF MarkAsRead, NotificationsTyped, NotificationsTypeOK
  <2> HIDE DEF doc
  <2>4. QED
    BY <1>2, <2>2, <2>3 DEF MarkAsRead, NotificationsTyped, NotificationsTypeOK
<1>3. ASSUME NEW n \in NoteId, DeleteNotification(n) PROVE NotificationsTyped'
  BY <1>3 DEF DeleteNotification, NotificationsTyped, NotificationsTypeOK
<1>4. ASSUME NEW u \in Subscriber, MarkAllAsRead(u) \/ UpdatePreferences(u)
      PROVE  NotificationsTyped'
  BY <1>4, UserStepTyped
<1>5. CASE UNCHANGED notificationsVars
  BY <1>5 DEF notificationsVars, NotificationsTyped, NotificationsTypeOK
<1>6. QED
  BY <1>1, <1>2, <1>3, <1>4, <1>5 DEF NotificationsNext

LEMMA NotificationsInitTyped == ASSUME NotificationsInit PROVE NotificationsTyped
  BY IdleIsGood DEF NotificationsInit, NotificationsTyped, NotificationsTypeOK, GoodSender

\* Type correctness: what is stored, and what each request that is sending
\* carries, stays as declared.
THEOREM NotificationsTypeCorrect == NotificationsSpec => []NotificationsTypeOK
<1>1. NotificationsInit => NotificationsTyped
  BY NotificationsInitTyped
<1>2. NotificationsTyped /\ [NotificationsNext]_notificationsVars => NotificationsTyped'
  BY NotificationsStepTyped
<1>3. NotificationsTyped => NotificationsTypeOK
  BY DEF NotificationsTyped
<1>4. QED
  BY <1>1, <1>2, <1>3, PTL DEF NotificationsSpec

-----------------------------------------------------------------------------
(***************************************************************************)
(* Push: any servers, tabs, connections, users and updates, whichever      *)
(* servers come up, go down or lose their connections.  Who is served and  *)
(* what a tab shows are invariants of their own.                           *)
(***************************************************************************)

IsTab(tab) ==
    /\ tab \in [user : {tab.user}, socket : {tab.socket}, emits : BOOLEAN,
                lost : BOOLEAN, notes : {tab.notes}, unread : {tab.unread}]
    /\ tab.user \in Viewer \cup {None}
    /\ tab.socket \in SocketId \cup {None}

PushShape ==
    /\ sockets \in [SocketId -> SocketDoc \cup {None, Deleted}]
    /\ subscribed \in [Server -> SUBSET Viewer]
    /\ silenced \in [Server -> SUBSET Viewer]
    /\ tabs = [t \in Tab |-> tabs[t]]
    /\ \A t \in Tab : IsTab(tabs[t])

\* A tab's connection is there, and is no other tab's.
OwnSocket ==
    /\ \A t \in Tab : tabs[t].socket # None => tabs[t].socket \in Connected
    /\ \A t, v \in Tab :
          t # v /\ tabs[t].socket = tabs[v].socket => tabs[t].socket = None

\* The subscribe event waits for the first connection.
AsksFirst ==
    \A t \in Tab : tabs[t].user # None /\ tabs[t].socket = None /\ ~tabs[t].lost
                      => tabs[t].emits

\* Once it is handled the connection is in the room, unless it left.
HasJoined ==
    \A t \in Tab :
        tabs[t].socket # None /\ ~tabs[t].lost /\ ~tabs[t].emits
            => sockets[tabs[t].socket].inRoom \/ sockets[tabs[t].socket].left

\* The server of a connection passes on to it, unless its user unsubscribed.
Serves(s) ==
    sockets[s].user \in subscribed[sockets[s].server]
                          \cup silenced[sockets[s].server]

RoomServed == \A s \in Connected : sockets[s].inRoom => Serves(s)

PushIInv == PushShape /\ OwnSocket /\ AsksFirst /\ HasJoined /\ RoomServed

LEMMA ConnectedType ==
    ASSUME PushShape
    PROVE  /\ Connected = {s \in SocketId : sockets[s] \notin {None, Deleted}}
           /\ \A s \in Connected : s \in SocketId /\ sockets[s] \in SocketDoc
  BY DEF PushShape, Connected, StoredIn

LEMMA PushNoneDiffers ==
    /\ None \notin SocketId
    /\ None \notin Viewer
    /\ \A d \in SocketDoc : d # None /\ d # Deleted
  BY PushAssumption

LEMMA PushInitIInv == PushInit => PushIInv
<1> SUFFICES ASSUME PushInit PROVE PushIInv
  OBVIOUS
<1>1. PushShape
  BY DEF PushInit, PushShape, IsTab
<1>2. Connected = {}
  BY DEF PushInit, Connected, StoredIn
<1>3. \A t \in Tab : tabs[t].user = None /\ tabs[t].socket = None
  BY DEF PushInit
<1>4. QED
  BY <1>1, <1>2, <1>3 DEF PushIInv, OwnSocket, AsksFirst, HasJoined, RoomServed

-----------------------------------------------------------------------------
(* Connections stay.                                                       *)

\* The tab differs in what it shows only.
SameConnection(a, b) ==
    b.user = a.user /\ b.socket = a.socket /\ b.emits = a.emits /\ b.lost = a.lost

LEMMA Untouched ==
    ASSUME PushIInv, UNCHANGED <<sockets, subscribed, silenced>>,
           tabs' = [t \in Tab |-> tabs'[t]],
           \A t \in Tab : IsTab(tabs'[t]) /\ SameConnection(tabs[t], tabs'[t])
    PROVE  PushIInv'
<1>1. PushShape'
  BY DEF PushIInv, PushShape
<1>2. Connected' = Connected
  BY DEF Connected
<1>3. OwnSocket' /\ AsksFirst' /\ HasJoined'
  BY <1>2 DEF PushIInv, OwnSocket, AsksFirst, HasJoined, SameConnection
<1>4. RoomServed'
  BY <1>2 DEF PushIInv, RoomServed, Serves
<1>5. QED
  BY <1>1, <1>3, <1>4 DEF PushIInv

LEMMA SameTabs ==
    ASSUME PushIInv, UNCHANGED <<sockets, subscribed, silenced, tabs>>
    PROVE  PushIInv'
<1>1. \A t \in Tab : IsTab(tabs'[t]) /\ SameConnection(tabs[t], tabs'[t])
  BY DEF PushIInv, PushShape, SameConnection
<1>2. tabs' = [t \in Tab |-> tabs'[t]]
  BY DEF PushIInv, PushShape
<1>3. QED
  BY <1>1, <1>2, Untouched

\* One tab shows something else.
LEMMA OneTabShows ==
    ASSUME PushIInv, UNCHANGED <<sockets, subscribed, silenced>>,
           NEW t \in Tab, NEW tab, tabs' = [tabs EXCEPT ![t] = tab],
           IsTab(tab), SameConnection(tabs[t], tab)
    PROVE  PushIInv'
<1>1. /\ tabs' = [v \in Tab |-> tabs'[v]]
      /\ tabs'[t] = tab
      /\ \A v \in Tab : v # t => tabs'[v] = tabs[v]
  BY DEF PushIInv, PushShape
<1>2. ASSUME NEW v \in Tab
      PROVE  IsTab(tabs'[v]) /\ SameConnection(tabs[v], tabs'[v])
  BY <1>1 DEF PushIInv, PushShape, SameConnection
<1>3. QED
  BY <1>1, <1>2, Untouched

\* What the reducers of notificationSlice do leaves the connection alone.
LEMMA ReducersShow ==
    ASSUME NEW tab, IsTab(tab), NEW id, NEW next,
           next \in {tab, AddNotification(tab, id), Read(tab, id), ReadAll(tab),
                     Remove(tab, id), Clear(tab)}
    PROVE  IsTab(next) /\ SameConnection(tab, next)
<1>1. ASSUME NEW list, NEW unread
      PROVE  IsTab(Holding(tab, list, unread)) /\ SameConnection(tab, Holding(tab, list, unread))
  BY DEF Holding, IsTab, SameConnection
<1>2. next = tab \/ \E list, unread : next = Holding(tab, list, unread)
  BY DEF AddNotification, Read, ReadAll, Remove, Clear
<1>3. CASE next = tab
  BY <1>3 DEF SameConnection
<1>4. QED
  BY <1>1, <1>2, <1>3

LEMMA ReceiveStep ==
    ASSUME PushIInv, NEW t \in Tab,
           ReceiveOrder(t) \/ ReceivePosition(t) \/ ReceiveNotification(t)
    PROVE  PushIInv'
<1>1. PICK next \in {tabs[t], Notified(t)} : Receive(t, next)
  BY DEF ReceiveOrder, ReceivePosition, ReceiveNotification
<1>2. IsTab(tabs[t])
  BY DEF PushIInv, PushShape
<1>3. IsTab(next) /\ SameConnection(tabs[t], next)
  BY <1>1, <1>2, ReducersShow DEF Notified
<1>4. /\ UNCHANGED <<sockets, subscribed, silenced>>
      /\ tabs' = [tabs EXCEPT ![t] = next]
  BY <1>1 DEF Receive
<1>5. QED
  BY <1>3, <1>4, OneTabShows

LEMMA UserReadsStep ==
    ASSUME PushIInv, NEW t \in Tab, UserReads(t)
    PROVE  PushIInv'
<1>1. UNCHANGED <<sockets, subscribed, silenced>>
  BY DEF UserReads
<1>2. PICK id, next :
          /\ next \in {Read(tabs[t], id), Remove(tabs[t], id), ReadAll(tabs[t]),
                      Clear(tabs[t])}
          /\ tabs' = [tabs EXCEPT ![t] = next]
  BY DEF UserReads
<1>3. IsTab(tabs[t])
  BY DEF PushIInv, PushShape
<1>4. IsTab(next) /\ SameConnection(tabs[t], next)
  BY <1>2, <1>3, ReducersShow
<1>5. QED
  BY <1>1, <1>2, <1>4, OneTabShows

-----------------------------------------------------------------------------
(* Connections end.                                                        *)

\* Connections end; the tabs that had them, and perhaps one that had none, are
\* without a connection that they still have to ask over.
LEMMA ConnectionsEnd ==
    ASSUME PushIInv, NEW S, CloseSockets(S),
           subscribed' \in [Server -> SUBSET Viewer],
           silenced' \in [Server -> SUBSET Viewer],
           \A s \in Connected \ S : Serves(s) => Serves(s)',
           tabs' = [t \in Tab |-> tabs'[t]],
           \A t \in Tab :
              \/ tabs'[t] = tabs[t] /\ tabs[t].socket \notin S
              \/ /\ IsTab(tabs'[t])
                 /\ tabs'[t].socket = None
                 /\ tabs'[t].user # None /\ ~tabs'[t].lost => tabs'[t].emits
    PROVE  PushIInv'
<1>1. sockets' = [s \in SocketId |-> IF s \in S THEN Deleted ELSE sockets[s]]
  BY DEF CloseSockets
<1>2. PushShape'
  BY <1>1 DEF PushIInv, PushShape
<1>3. Connected' = Connected \ S /\ \A s \in Connected' : sockets'[s] = sockets[s]
  BY <1>1, <1>2, ConnectedType DEF PushIInv, Connected, StoredIn
<1>4. OwnSocket'
  BY <1>3 DEF PushIInv, OwnSocket
<1>5. AsksFirst'
  BY DEF PushIInv, AsksFirst
<1>6. HasJoined'
  <2> SUFFICES ASSUME NEW t \in Tab, tabs'[t].socket # None, ~tabs'[t].lost,
                      ~tabs'[t].emits
               PROVE  sockets'[tabs'[t].socket].inRoom \/ sockets'[tabs'[t].socket].left
    BY DEF HasJoined
  <2>1. tabs'[t] = tabs[t] /\ tabs[t].socket \in Connected'
    BY <1>3 DEF PushIInv, OwnSocket
  <2>2. QED
    BY <1>3, <2>1 DEF PushIInv, HasJoined
<1>7. RoomServed'
  BY <1>3 DEF PushIInv, RoomServed, Serves
<1>8. QED
  BY <1>2, <1>4, <1>5, <1>6, <1>7 DEF PushIInv

\* The connection of one tab ends, if it has one.
LEMMA TabDisconnects ==
    ASSUME PushIInv, NEW t \in Tab, NEW S, CloseSockets(S),
           S = {tabs[t].socket} \ {None},
           UNCHANGED <<subscribed, silenced>>,
           NEW tab, tabs' = [tabs EXCEPT ![t] = tab],
           IsTab(tab), tab.socket = None, tab.user # None /\ ~tab.lost => tab.emits
    PROVE  PushIInv'
<1>1. /\ tabs' = [v \in Tab |-> tabs'[v]]
      /\ tabs'[t] = tab
      /\ \A v \in Tab : v # t => tabs'[v] = tabs[v]
  BY DEF PushIInv, PushShape
<1>2. \A v \in Tab : v # t => tabs[v].socket \notin S
  BY DEF PushIInv, OwnSocket
<1>3. subscribed' \in [Server -> SUBSET Viewer] /\ silenced' \in [Server -> SUBSET Viewer]
  BY DEF PushIInv, PushShape
<1>4. sockets' = [s \in SocketId |-> IF s \in S THEN Deleted ELSE sockets[s]]
  BY DEF CloseSockets
<1>5. \A s \in Connected \ S : Serves(s) => Serves(s)'
  BY <1>4, ConnectedType DEF Serves, PushIInv
<1>6. QED
  BY <1>1, <1>2, <1>3, <1>5, ConnectionsEnd

LEMMA LogInStep ==
    ASSUME PushIInv, NEW t \in Tab, NEW u \in Viewer, LogIn(t, u)
    PROVE  PushIInv'
<1> DEFINE tab == [tabs[t] EXCEPT
                    !.user = u, !.socket = None, !.emits = TRUE, !.lost = FALSE]
<1>1. /\ CloseSockets({tabs[t].socket} \ {None})
      /\ tabs' = [tabs EXCEPT ![t] = tab]
      /\ UNCHANGED <<subscribed, silenced>>
  BY DEF LogIn
<1>2. IsTab(tab) /\ tab.socket = None /\ tab.emits
  BY DEF PushIInv, PushShape, IsTab
<1> HIDE DEF tab
<1>3. QED
  BY <1>1, <1>2, TabDisconnects

LEMMA LoseConnectionStep ==
    ASSUME PushIInv, NEW t \in Tab, LoseConnection(t)
    PROVE  PushIInv'
<1> DEFINE tab == [tabs[t] EXCEPT !.socket = None, !.emits = FALSE, !.lost = TRUE]
<1>1. /\ tabs[t].socket # None
      /\ CloseSockets({tabs[t].socket})
      /\ tabs' = [tabs EXCEPT ![t] = tab]
      /\ UNCHANGED <<subscribed, silenced>>
  BY DEF LoseConnection
<1>2. IsTab(tab) /\ tab.socket = None /\ tab.lost
  BY DEF PushIInv, PushShape, IsTab
<1>3. {tabs[t].socket} = {tabs[t].socket} \ {None}
  BY <1>1
<1> HIDE DEF tab
<1>4. QED
  BY <1>1, <1>2, <1>3, TabDisconnects

LEMMA LogOutStep ==
    ASSUME PushIInv, NEW t \in Tab, LogOut(t)
    PROVE  PushIInv'
<1> DEFINE tab == [tabs[t] EXCEPT !.user = None, !.socket = None, !.emits = FALSE]
<1>1. /\ CloseSockets({tabs[t].socket} \ {None})
      /\ tabs' = [tabs EXCEPT ![t] = tab]
      /\ UNCHANGED <<subscribed, silenced>>
  BY DEF LogOut
<1>2. IsTab(tab) /\ tab.socket = None /\ tab.user = None
  BY DEF PushIInv, PushShape, IsTab
<1> HIDE DEF tab
<1>3. QED
  BY <1>1, <1>2, TabDisconnects

\* The sets of a process end with all its connections.
LEMMA EndProcessStep ==
    ASSUME PushIInv, NEW srv \in Server, EndProcess(srv)
    PROVE  PushIInv'
<1> DEFINE broken == SocketsOf(srv)
<1>1. /\ CloseSockets(broken)
      /\ tabs' = [t \in Tab |->
            IF tabs[t].socket \in broken
            THEN [tabs[t] EXCEPT !.socket = None, !.emits = FALSE, !.lost = TRUE]
            ELSE tabs[t]]
      /\ subscribed' = [subscribed EXCEPT ![srv] = {}]
      /\ silenced' = [silenced EXCEPT ![srv] = {}]
  BY DEF EndProcess
<1>2. subscribed' \in [Server -> SUBSET Viewer] /\ silenced' \in [Server -> SUBSET Viewer]
  BY <1>1 DEF PushIInv, PushShape
<1>3. sockets' = [s \in SocketId |-> IF s \in broken THEN Deleted ELSE sockets[s]]
  BY <1>1 DEF CloseSockets
<1>4. ASSUME NEW s \in Connected \ broken PROVE Serves(s) => Serves(s)'
  <2>1. s \in SocketId /\ sockets[s] \in SocketDoc /\ sockets[s].server # srv
    BY <1>4, ConnectedType DEF SocketsOf, PushIInv
  <2>2. sockets'[s] = sockets[s] /\ sockets[s].server \in Server
    BY <1>3, <1>4, <2>1 DEF SocketDoc
  <2>3. /\ subscribed'[sockets[s].server] = subscribed[sockets[s].server]
        /\ silenced'[sockets[s].server] = silenced[sockets[s].server]
    BY <1>1, <2>1, <2>2 DEF PushIInv, PushShape
  <2>4. QED
    BY <2>2, <2>3 DEF Serves
<1>5. tabs' = [t \in Tab |-> tabs'[t]]
  BY <1>1
<1>6. ASSUME NEW t \in Tab
      PROVE  \/ tabs'[t] = tabs[t] /\ tabs[t].socket \notin broken
             \/ /\ IsTab(tabs'[t])
                /\ tabs'[t].socket = None
                /\ tabs'[t].lost
  <2>1. CASE tabs[t].socket \notin broken
    BY <1>1, <2>1
  <2>2. CASE tabs[t].socket \in broken
    <3> DEFINE tab == [tabs[t] EXCEPT !.socket = None, !.emits = FALSE, !.lost = TRUE]
    <3>1. IsTab(tab) /\ tab.socket = None /\ tab.lost
      BY DEF PushIInv, PushShape, IsTab
    <3>2. tabs'[t] = tab
      BY <1>1, <2>2
    <3> HIDE DEF tab
    <3>3. QED
      BY <3>1, <3>2
  <2>3. QED
    BY <2>1, <2>2
<1> HIDE DEF broken
<1>7. QED
  BY <1>1, <1>2, <1>4, <1>5, <1>6, ConnectionsEnd

-----------------------------------------------------------------------------
(* Connections open and subscribe.                                         *)

\* A new connection is in no room, and its tab asks over it.
LEMMA OpenConnectionStep ==
    ASSUME PushIInv, NEW t \in Tab, OpenConnection(t)
    PROVE  PushIInv'
<1>1. PICK s \in UnusedIn(sockets), srv \in Server :
          /\ sockets' = [sockets EXCEPT ![s] =
                [server |-> srv, user |-> tabs[t].user, inRoom |-> FALSE,
                 left |-> FALSE]]
          /\ tabs' = [tabs EXCEPT ![t].socket = s]
  BY DEF OpenConnection
<1>2. /\ tabs[t].user # None
      /\ tabs[t].socket = None
      /\ UNCHANGED <<subscribed, silenced>>
  BY DEF OpenConnection
<1> DEFINE doc == [server |-> srv, user |-> tabs[t].user, inRoom |-> FALSE,
                   left |-> FALSE]
           tab == [tabs[t] EXCEPT !.socket = s]
<1>3. s \in SocketId /\ s \notin Connected /\ s # None
  BY PushNoneDiffers DEF UnusedIn, Connected, StoredIn, PushIInv, PushShape
<1>4. doc \in SocketDoc /\ ~doc.inRoom
  BY <1>2 DEF PushIInv, PushShape, IsTab, SocketDoc
<1>5. /\ IsTab(tab)
      /\ tab.socket = s
      /\ tab.user = tabs[t].user
      /\ tab.emits = tabs[t].emits
      /\ tab.lost = tabs[t].lost
  BY <1>3 DEF PushIInv, PushShape, IsTab
<1>6. /\ tabs' = [v \in Tab |-> tabs'[v]]
      /\ tabs'[t] = tab
      /\ \A v \in Tab : v # t => tabs'[v] = tabs[v]
  BY <1>1 DEF PushIInv, PushShape
<1>7. sockets'[s] = doc /\ \A r \in SocketId : r # s => sockets'[r] = sockets[r]
  BY <1>1, <1>3 DEF PushIInv, PushShape
<1>8. PushShape'
  BY <1>1, <1>2, <1>4, <1>5, <1>6 DEF PushIInv, PushShape
<1> HIDE DEF doc, tab
<1>9. Connected' = Connected \cup {s}
  BY <1>3, <1>4, <1>7, <1>8, ConnectedType, PushNoneDiffers DEF PushIInv, Connected, StoredIn, PushShape
<1>10. \A r \in Connected : r # s /\ sockets'[r] = sockets[r]
  BY <1>3, <1>7, ConnectedType DEF PushIInv
<1>11. OwnSocket'
  BY <1>3, <1>5, <1>6, <1>9 DEF PushIInv, OwnSocket
<1>12. AsksFirst'
  BY <1>3, <1>5, <1>6 DEF PushIInv, AsksFirst
<1>13. HasJoined'
  <2> SUFFICES ASSUME NEW v \in Tab, tabs'[v].socket # None, ~tabs'[v].lost,
                      ~tabs'[v].emits
               PROVE  sockets'[tabs'[v].socket].inRoom \/ sockets'[tabs'[v].socket].left
    BY DEF HasJoined
  <2>1. v # t
    BY <1>2, <1>5, <1>6 DEF PushIInv, AsksFirst
  <2>2. tabs'[v] = tabs[v] /\ tabs[v].socket \in Connected
    BY <1>6, <2>1 DEF PushIInv, OwnSocket
  <2>3. QED
    BY <1>10, <2>2 DEF PushIInv, HasJoined
<1>14. RoomServed'
  BY <1>2, <1>4, <1>7, <1>9, <1>10 DEF PushIInv, RoomServed, Serves
<1>15. QED
  BY <1>8, <1>11, <1>12, <1>13, <1>14 DEF PushIInv

\* The user is added at the server of the connection that joins.
LEMMA HandleSubscribeStep ==
    ASSUME PushIInv, NEW srv \in Server, HandleSubscribe(srv)
    PROVE  PushIInv'
<1>1. PICK t \in Tab :
          /\ tabs[t].socket \in SocketsOf(srv)
          /\ subscribed' = [subscribed EXCEPT
                ![srv] = @ \cup {sockets[tabs[t].socket].user}]
          /\ silenced' = [silenced EXCEPT ![srv] = @ \ {sockets[tabs[t].socket].user}]
          /\ sockets' = [sockets EXCEPT ![tabs[t].socket].inRoom = TRUE]
          /\ tabs' = [tabs EXCEPT ![t].emits = FALSE]
  BY DEF HandleSubscribe
<1> DEFINE s == tabs[t].socket
           u == sockets[s].user
           doc == [sockets[s] EXCEPT !.inRoom = TRUE]
           tab == [tabs[t] EXCEPT !.emits = FALSE]
<1>2. s \in Connected /\ s \in SocketId /\ sockets[s] \in SocketDoc /\ sockets[s].server = srv
  BY <1>1, ConnectedType DEF SocketsOf, PushIInv
<1>3. doc \in SocketDoc /\ doc.inRoom /\ doc.user = u /\ doc.server = srv /\ u \in Viewer
  BY <1>2 DEF SocketDoc
<1>4. /\ IsTab(tab)
      /\ tab.socket = s
      /\ tab.user = tabs[t].user
      /\ tab.lost = tabs[t].lost
  BY DEF PushIInv, PushShape, IsTab
<1>5. /\ tabs' = [v \in Tab |-> tabs'[v]]
      /\ tabs'[t] = tab
      /\ \A v \in Tab : v # t => tabs'[v] = tabs[v]
  BY <1>1 DEF PushIInv, PushShape
<1>6. sockets'[s] = doc /\ \A r \in SocketId : r # s => sockets'[r] = sockets[r]
  BY <1>1, <1>2 DEF PushIInv, PushShape
<1>7. PushShape'
  <2>1. sockets' \in [SocketId -> SocketDoc \cup {None, Deleted}]
    BY <1>1, <1>2, <1>3 DEF PushIInv, PushShape
  <2>2. subscribed' \in [Server -> SUBSET Viewer] /\ silenced' \in [Server -> SUBSET Viewer]
    BY <1>1, <1>3 DEF PushIInv, PushShape
  <2>3. \A v \in Tab : IsTab(tabs'[v])
    BY <1>4, <1>5 DEF PushIInv, PushShape
  <2>4. QED
    BY <1>5, <2>1, <2>2, <2>3 DEF PushShape
<1>8. /\ subscribed'[srv] = subscribed[srv] \cup {u}
      /\ silenced'[srv] = silenced[srv] \ {u}
      /\ \A other \in Server : other # srv =>
            subscribed'[other] = subscribed[other] /\ silenced'[other] = silenced[other]
  BY <1>1 DEF PushIInv, PushShape
<1>9. s # None
  BY <1>2, PushNoneDiffers
<1> HIDE DEF doc, tab, s, u
<1>10. Connected' = Connected
  BY <1>2, <1>3, <1>6, <1>7, PushNoneDiffers DEF Connected, StoredIn, PushIInv, PushShape
<1>11. \A r \in Connected : r # s => sockets'[r] = sockets[r]
  BY <1>6, ConnectedType DEF PushIInv
<1>12. \A v \in Tab : tabs'[v].socket = tabs[v].socket
  BY <1>4, <1>5 DEF s
<1>13. OwnSocket'
  BY <1>10, <1>12 DEF PushIInv, OwnSocket
<1>14. AsksFirst'
  BY <1>4, <1>5, <1>9 DEF PushIInv, AsksFirst
<1>15. HasJoined'
  <2> SUFFICES ASSUME NEW v \in Tab, tabs'[v].socket # None, ~tabs'[v].lost,
                      ~tabs'[v].emits
               PROVE  sockets'[tabs'[v].socket].inRoom \/ sockets'[tabs'[v].socket].left
    BY DEF HasJoined
  <2>1. CASE v = t
    BY <1>3, <1>4, <1>5, <1>6, <2>1
  <2>2. CASE v # t
    <3>1. tabs'[v] = tabs[v] /\ tabs[v].socket \in Connected /\ tabs[v].socket # s
      BY <1>5, <1>9, <2>2 DEF PushIInv, OwnSocket, s
    <3>2. QED
      BY <1>11, <3>1 DEF PushIInv, HasJoined
  <2>3. QED
    BY <2>1, <2>2
<1>16. RoomServed'
  <2> SUFFICES ASSUME NEW r \in Connected, sockets'[r].inRoom PROVE Serves(r)'
    BY <1>10 DEF RoomServed
  <2>1. CASE r = s
    BY <1>3, <1>6, <1>8, <2>1 DEF Serves
  <2>2. CASE r # s
    <3>1. sockets'[r] = sockets[r] /\ Serves(r) /\ sockets[r].server \in Server
      BY <1>11, <2>2, ConnectedType DEF PushIInv, RoomServed, SocketDoc
    <3>2. QED
      BY <1>8, <3>1 DEF Serves
  <2>3. QED
    BY <2>1, <2>2
<1>17. QED
  BY <1>7, <1>13, <1>14, <1>15, <1>16 DEF PushIInv

\* The other connections of a user who unsubscribes stay in the room of a user
\* who is silenced.
LEMMA HandleUnsubscribeStep ==
    ASSUME PushIInv, NEW srv \in Server, HandleUnsubscribe(srv)
    PROVE  PushIInv'
<1>1. PICK s \in SocketsOf(srv) :
          /\ subscribed' = [subscribed EXCEPT ![srv] = @ \ {sockets[s].user}]
          /\ silenced' = [silenced EXCEPT ![srv] = @ \cup {sockets[s].user}]
          /\ sockets' = [sockets EXCEPT ![s].inRoom = FALSE, ![s].left = TRUE]
          /\ UNCHANGED tabs
  BY DEF HandleUnsubscribe
<1> DEFINE u == sockets[s].user
           doc == [sockets[s] EXCEPT !.inRoom = FALSE, !.left = TRUE]
<1>2. s \in Connected /\ s \in SocketId /\ sockets[s] \in SocketDoc
  BY ConnectedType DEF SocketsOf, PushIInv
<1>3. doc \in SocketDoc /\ ~doc.inRoom /\ doc.left /\ u \in Viewer
  BY <1>2 DEF SocketDoc
<1>4. sockets'[s] = doc /\ \A r \in SocketId : r # s => sockets'[r] = sockets[r]
  BY <1>1, <1>2 DEF PushIInv, PushShape
<1>5. PushShape'
  <2>1. sockets' = [sockets EXCEPT ![s] = doc]
    BY <1>1, <1>2 DEF PushIInv, PushShape
  <2>2. sockets' \in [SocketId -> SocketDoc \cup {None, Deleted}]
    BY <1>2, <1>3, <2>1 DEF PushIInv, PushShape
  <2>3. subscribed' \in [Server -> SUBSET Viewer] /\ silenced' \in [Server -> SUBSET Viewer]
    BY <1>1, <1>3 DEF PushIInv, PushShape
  <2>4. QED
    BY <1>1, <2>2, <2>3 DEF PushIInv, PushShape
<1>6. /\ subscribed'[srv] = subscribed[srv] \ {u}
      /\ silenced'[srv] = silenced[srv] \cup {u}
      /\ \A other \in Server : other # srv =>
            subscribed'[other] = subscribed[other] /\ silenced'[other] = silenced[other]
  BY <1>1 DEF PushIInv, PushShape
<1> HIDE DEF doc, u
<1>7. Connected' = Connected
  BY <1>2, <1>3, <1>4, <1>5, PushNoneDiffers DEF Connected, StoredIn, PushIInv, PushShape
<1>8. \A r \in Connected : r # s => sockets'[r] = sockets[r]
  BY <1>4, ConnectedType DEF PushIInv
<1>9. OwnSocket' /\ AsksFirst'
  BY <1>1, <1>7 DEF PushIInv, OwnSocket, AsksFirst
<1>10. HasJoined'
  <2> SUFFICES ASSUME NEW v \in Tab, tabs[v].socket # None, ~tabs[v].lost,
                      ~tabs[v].emits
               PROVE  sockets'[tabs[v].socket].inRoom \/ sockets'[tabs[v].socket].left
    BY <1>1 DEF HasJoined
  <2>1. tabs[v].socket \in Connected
    BY DEF PushIInv, OwnSocket
  <2>2. QED
    BY <1>3, <1>4, <1>8, <2>1 DEF PushIInv, HasJoined
<1>11. RoomServed'
  <2> SUFFICES ASSUME NEW r \in Connected, sockets'[r].inRoom PROVE Serves(r)'
    BY <1>7 DEF RoomServed
  <2>1. r # s
    BY <1>3, <1>4
  <2>2. sockets'[r] = sockets[r] /\ Serves(r) /\ sockets[r].server \in Server
    BY <1>8, <2>1, ConnectedType DEF PushIInv, RoomServed, SocketDoc
  <2>3. QED
    BY <1>6, <2>2 DEF Serves
<1>12. QED
  BY <1>5, <1>9, <1>10, <1>11 DEF PushIInv

-----------------------------------------------------------------------------
(* The theorem.                                                            *)

LEMMA PushNextIInv == PushIInv /\ [PushNext]_pushVars => PushIInv'
<1> SUFFICES ASSUME PushIInv, [PushNext]_pushVars PROVE PushIInv'
  OBVIOUS
<1>1. ASSUME NEW t \in Tab, TabStep(t) PROVE PushIInv'
  BY <1>1, LogInStep, OpenConnectionStep, LoseConnectionStep, LogOutStep,
     ReceiveStep, UserReadsStep DEF TabStep
<1>2. ASSUME NEW srv \in Server, ServiceStep(srv) PROVE PushIInv'
  <2>1. CASE Start(srv) \/ Stop(srv) \/ Relay(srv)
    BY <2>1, SameTabs DEF Start, Stop, Relay
  <2>2. QED
    BY <1>2, <2>1, HandleSubscribeStep, HandleUnsubscribeStep DEF ServiceStep
<1>3. ASSUME NEW srv \in Server, ServerStep(srv) PROVE PushIInv'
  <2>1. CASE StartListening(srv)
    BY <2>1, SameTabs DEF StartListening
  <2>2. QED
    BY <1>2, <1>3, <2>1, EndProcessStep DEF ServerStep, OrderService,
       PositionService, NotificationService
<1>4. ASSUME NEW m \in Update, Publish(m) PROVE PushIInv'
  BY <1>4, SameTabs DEF Publish
<1>5. CASE UNCHANGED pushVars
  BY <1>5, SameTabs DEF pushVars
<1>6. QED
  BY <1>1, <1>3, <1>4, <1>5 DEF PushNext

LEMMA PushInvariance == PushSpec => []PushIInv
  BY PushInitIInv, PushNextIInv, PTL DEF PushSpec

\* Whoever logged in and has not lost the connection is in the room, and among
\* the users the server relays to, for any number of servers, tabs and
\* connections, with or without the Redis adapter (websocketMiddleware.ts,
\* subscribe, unsubscribe, the disconnect handler).
THEOREM Served == PushSpec => []LoggedInIsServed
<1>1. ASSUME PushIInv PROVE LoggedInIsServed
  <2> SUFFICES ASSUME NEW t \in Tab, tabs[t].socket # None, ~tabs[t].lost,
                      ~tabs[t].emits, ~sockets[tabs[t].socket].left
               PROVE  /\ sockets[tabs[t].socket].inRoom
                      /\ Serves(tabs[t].socket)
    BY DEF LoggedInIsServed, Serves
  <2>1. sockets[tabs[t].socket].inRoom
    BY <1>1 DEF PushIInv, HasJoined
  <2>2. tabs[t].socket \in Connected
    BY <1>1 DEF PushIInv, OwnSocket
  <2>3. QED
    BY <1>1, <2>1, <2>2 DEF PushIInv, RoomServed
<1>2. QED
  BY <1>1, PushInvariance, PTL

-----------------------------------------------------------------------------
(* What a tab shows.                                                       *)

\* What a tab shows: its badge counts no less than what is unread in it.
Shows(tab) ==
    /\ tab \in TabState
    /\ Cardinality(UnreadIn(tab.notes)) <= tab.unread

\* The reducers of notificationSlice.
LEMMA UnreadType ==
    ASSUME NEW held \in Seq(ShownNote)
    PROVE  /\ UnreadIn(held) \subseteq 1..Len(held)
           /\ IsFiniteSet(UnreadIn(held)) /\ Cardinality(UnreadIn(held)) \in Nat
<1>1. UnreadIn(held) \in SUBSET (1..Len(held)) /\ Len(held) \in Nat
  BY DEF UnreadIn
<1>2. IsFiniteSet(1..Len(held))
  BY <1>1, FS_Interval
<1>3. QED
  BY <1>1, <1>2, FS_Subset, FS_CardinalityType

\* The tab with other notifications and another count.
LEMMA TabWith ==
    ASSUME NEW tab \in TabState, NEW held \in Seq(ShownNote), NEW unread \in Nat,
           Cardinality(UnreadIn(held)) <= unread
    PROVE  Shows(Holding(tab, held, unread))
  BY DEF Shows, TabState, Holding

LEMMA TabShown ==
    ASSUME NEW tab, Shows(tab)
    PROVE  /\ tab \in TabState
           /\ tab.notes \in Seq(ShownNote) /\ tab.unread \in Nat
           /\ UnreadIn(tab.notes) \subseteq 1..Len(tab.notes)
           /\ IsFiniteSet(UnreadIn(tab.notes))
           /\ Cardinality(UnreadIn(tab.notes)) \in Nat
           /\ Cardinality(UnreadIn(tab.notes)) <= tab.unread
<1>1. tab \in TabState /\ tab.notes \in Seq(ShownNote) /\ tab.unread \in Nat
  BY DEF Shows, TabState
<1>2. QED
  BY <1>1, UnreadType DEF Shows

LEMMA AddShows ==
    ASSUME NEW tab, Shows(tab), NEW id \in MessageId
    PROVE  Shows(AddNotification(tab, id))
<1>1. PICK held, unread, n :
          held = tab.notes /\ unread = tab.unread /\ n = Len(held)
  OBVIOUS
<1>2. held \in Seq(ShownNote) /\ n \in Nat
  BY <1>1, TabShown
<1> DEFINE new == [id |-> id, read |-> FALSE]
           more == <<new>> \o held
           old == UnreadIn(held)
<1>3. more \in Seq(ShownNote) /\ Len(more) = n + 1 /\ \A i \in 1..n : more[i + 1] = held[i]
  <2>1. <<new>> \in Seq(ShownNote) /\ Len(<<new>>) = 1
    BY DEF ShownNote
  <2> HIDE DEF new
  <2>2. QED
    BY <1>1, <1>2, <2>1
<1> HIDE DEF more, new
\* The old ones have moved one further.
<1>4. UnreadIn(more) \ {1} \subseteq {i \in 2..(n + 1) : ~held[i - 1].read}
  <2> SUFFICES ASSUME NEW i \in UnreadIn(more), i # 1
               PROVE  i \in 2..(n + 1) /\ ~held[i - 1].read
    OBVIOUS
  <2>1. i \in 1..(n + 1) /\ ~more[i].read
    BY <1>2, <1>3 DEF UnreadIn
  <2>2. i \in 2..(n + 1) /\ i - 1 \in 1..n /\ (i - 1) + 1 = i
    BY <1>2, <2>1
  <2>3. QED
    BY <1>3, <2>1, <2>2
<1> DEFINE moved == UnreadIn(more) \ {1}
           f == [i \in moved |-> i - 1]
<1>5. \A i \in moved : i \in 2..(n + 1) /\ ~held[i - 1].read
  BY <1>4
<1>6. IsFiniteSet(old) /\ Cardinality(old) \in Nat /\ Cardinality(old) <= unread /\ unread \in Nat
  BY <1>1, TabShown
<1>7. f \in Injection(moved, old)
  <2>1. \A i \in moved : i - 1 \in old
    BY <1>1, <1>2, <1>5 DEF UnreadIn
  <2>2. \A i, j \in moved : i - 1 = j - 1 => i = j
    BY <1>2, <1>5
  <2> HIDE DEF moved, old
  <2>3. QED
    BY <2>1, <2>2 DEF Injection, IsInjective
<1>8. IsFiniteSet(moved) /\ Cardinality(moved) <= Cardinality(old) /\ Cardinality(moved) \in Nat
  BY <1>6, <1>7, FS_Injection, FS_CardinalityType
<1>9. UnreadIn(more) \subseteq moved \cup {1}
  OBVIOUS
<1>10. /\ IsFiniteSet(moved \cup {1})
       /\ Cardinality(moved \cup {1}) <= Cardinality(moved) + 1
       /\ Cardinality(moved \cup {1}) \in Nat
  <2> HIDE DEF moved
  <2>1. QED
    BY <1>8, FS_AddElement, FS_CardinalityType
<1>11. Cardinality(UnreadIn(more)) <= Cardinality(moved \cup {1})
  BY <1>9, <1>10, FS_Subset
<1>12. Cardinality(UnreadIn(more)) \in Nat
  BY <1>3, UnreadType
<1> HIDE DEF moved, old
<1>13. Cardinality(UnreadIn(more)) <= unread + 1 /\ unread + 1 \in Nat
  BY <1>6, <1>8, <1>10, <1>11, <1>12
<1>14. AddNotification(tab, id) = Holding(tab, more, unread + 1)
  BY <1>1 DEF AddNotification, more, new
<1>15. QED
  BY <1>3, <1>13, <1>14, TabShown, TabWith

\* The first with the id is one of them.
LEMMA FirstFound ==
    ASSUME NEW held \in Seq(ShownNote), NEW id, FirstOf(held, id) # 0
    PROVE  /\ FirstOf(held, id) \in DOMAIN held
           /\ held[FirstOf(held, id)].id = id
<1> DEFINE found == {i \in DOMAIN held : held[i].id = id}
<1>1. found # {} /\ found \in SUBSET (1..Len(held)) /\ Len(held) \in Nat
  BY DEF FirstOf
<1>2. \E i \in found : \A j \in found : i <= j
  <2> HIDE DEF found
  <2>1. QED
    BY <1>1, Lowest
<1>3. (CHOOSE k \in found : \A j \in found : k <= j) \in found
  BY <1>2
<1>4. QED
  BY <1>1, <1>3 DEF FirstOf

LEMMA ReadShows ==
    ASSUME NEW tab, Shows(tab), NEW id \in MessageId
    PROVE  Shows(Read(tab, id))
<1>1. PICK held, unread, k :
          held = tab.notes /\ unread = tab.unread /\ k = FirstOf(held, id)
  OBVIOUS
<1>2. held \in Seq(ShownNote) /\ unread \in Nat
  BY <1>1, TabShown
<1>3. CASE ~IsUnread(held, k)
  BY <1>1, <1>3 DEF Read
<1>4. CASE IsUnread(held, k)
  <2> DEFINE note == [held[k] EXCEPT !.read = TRUE]
             list == [held EXCEPT ![k] = note]
             old == UnreadIn(held)
  <2>1. k \in DOMAIN held /\ ~held[k].read /\ held[k] \in ShownNote
    BY <1>1, <1>2, <1>4, FirstFound DEF IsUnread
  <2>2. note \in ShownNote /\ note.read
    BY <2>1 DEF ShownNote
  <2> HIDE DEF note
  <2>3. list \in Seq(ShownNote)
    BY <1>2, <2>1, <2>2
  <2>4. UnreadIn(list) \subseteq old \ {k} /\ k \in old
    BY <1>2, <2>1, <2>2 DEF UnreadIn
  <2>5. /\ IsFiniteSet(old) /\ Cardinality(old) \in Nat /\ Cardinality(old) <= unread
    BY <1>1, TabShown
  <2>6. IsFiniteSet(old \ {k}) /\ Cardinality(old \ {k}) = Cardinality(old) - 1
    BY <2>4, <2>5, FS_RemoveElement
  <2>7. Cardinality(UnreadIn(list)) <= Cardinality(old \ {k})
    BY <2>4, <2>6, FS_Subset
  <2>8. Cardinality(UnreadIn(list)) \in Nat
    BY <2>3, UnreadType
  <2>9. Read(tab, id) = Holding(tab, list, unread - 1)
    BY <1>1, <1>4 DEF Read, note, TabState
  <2> HIDE DEF list, old
  <2>10. Cardinality(UnreadIn(list)) <= unread - 1 /\ unread - 1 \in Nat
    BY <1>2, <2>5, <2>6, <2>7, <2>8
  <2>11. QED
    BY <2>3, <2>9, <2>10, TabShown, TabWith
<1>5. QED
  BY <1>3, <1>4

LEMMA ReadAllShows ==
    ASSUME NEW tab, Shows(tab)
    PROVE  Shows(ReadAll(tab))
<1>1. PICK held : held = tab.notes /\ held \in Seq(ShownNote)
  BY TabShown
<1> DEFINE list == [i \in DOMAIN held |-> [held[i] EXCEPT !.read = TRUE]]
<1>2. ASSUME NEW i \in DOMAIN held PROVE list[i] \in ShownNote /\ list[i].read
  <2>1. held[i] \in ShownNote
    BY <1>1
  <2>2. QED
    BY <2>1 DEF ShownNote
<1>3. list \in Seq(ShownNote) /\ DOMAIN list = DOMAIN held
  <2>1. DOMAIN list = 1..Len(held) /\ Len(held) \in Nat
    BY <1>1
  <2>2. list = [i \in 1..Len(held) |-> list[i]]
    BY <2>1
  <2> HIDE DEF list
  <2>3. QED
    BY <1>1, <1>2, <2>1, <2>2
<1>4. UnreadIn(list) = {}
  <2> HIDE DEF list
  <2>1. QED
    BY <1>2, <1>3 DEF UnreadIn
<1>5. ReadAll(tab) = Holding(tab, list, 0)
  BY <1>1 DEF ReadAll
<1> HIDE DEF list
<1>6. Cardinality(UnreadIn(list)) <= 0 /\ 0 \in Nat
  BY <1>4, FS_EmptySet
<1>7. QED
  BY <1>3, <1>5, <1>6, TabShown, TabWith

LEMMA ClearShows ==
    ASSUME NEW tab, Shows(tab)
    PROVE  Shows(Clear(tab))
<1>1. <<>> \in Seq(ShownNote) /\ UnreadIn(<<>>) = {}
  BY DEF UnreadIn
<1>2. Cardinality(UnreadIn(<<>>)) <= 0 /\ 0 \in Nat
  BY <1>1, FS_EmptySet
<1>3. QED
  BY <1>1, <1>2, TabShown, TabWith DEF Clear

LEMMA RemoveShows ==
    ASSUME NEW tab, Shows(tab), NEW id \in MessageId
    PROVE  Shows(Remove(tab, id))
<1>1. PICK held, unread, k :
          held = tab.notes /\ unread = tab.unread /\ k = FirstOf(held, id)
  OBVIOUS
<1>2. held \in Seq(ShownNote) /\ unread \in Nat
  BY <1>1, TabShown
<1> DEFINE K == OtherThan(held, id)
           list == PickFrom(held, K)
           old == UnreadIn(held)
           left == old \cap K
<1>3. K \in SUBSET DOMAIN held
  BY DEF OtherThan
<1>4. list \in Seq(ShownNote)
  BY <1>2, <1>3, Picked
<1>5. PICK f \in Injection(DOMAIN list, K) : \A i \in DOMAIN list : list[i] = held[f[i]]
  BY <1>2, <1>3, Picked
<1>6. IsFiniteSet(old) /\ Cardinality(old) \in Nat /\ Cardinality(old) <= unread
  BY <1>1, TabShown
<1> DEFINE g == [i \in UnreadIn(list) |-> f[i]]
<1>7. g \in Injection(UnreadIn(list), left)
  <2>1. \A i \in DOMAIN list : f[i] \in K
    BY <1>5 DEF Injection
  <2>2. \A i, j \in DOMAIN list : f[i] = f[j] => i = j
    BY <1>5 DEF Injection, IsInjective
  <2>3. UnreadIn(list) \subseteq DOMAIN list
    BY DEF UnreadIn
  <2>4. \A i \in UnreadIn(list) : f[i] \in left
    BY <1>3, <1>5, <2>1, <2>3 DEF UnreadIn
  <2> HIDE DEF list, left, K
  <2>5. QED
    BY <2>2, <2>3, <2>4 DEF Injection, IsInjective
<1>8. IsFiniteSet(left)
  BY <1>6, FS_Subset
<1>9. Cardinality(UnreadIn(list)) <= Cardinality(left)
  BY <1>7, <1>8, FS_Injection
<1>10. Cardinality(UnreadIn(list)) \in Nat /\ Cardinality(left) \in Nat
  BY <1>4, <1>8, UnreadType, FS_CardinalityType
<1>11. CASE IsUnread(held, k)
  <2>1. k \in old /\ k \notin K
    BY <1>1, <1>2, <1>11, FirstFound DEF IsUnread, UnreadIn, OtherThan
  <2>2. left \subseteq old \ {k}
    BY <2>1
  <2>3. IsFiniteSet(old \ {k}) /\ Cardinality(old \ {k}) = Cardinality(old) - 1
    BY <1>6, <2>1, FS_RemoveElement
  <2>4. Cardinality(left) <= Cardinality(old \ {k})
    BY <2>2, <2>3, FS_Subset
  <2>5. Remove(tab, id) = Holding(tab, list, unread - 1)
    BY <1>1, <1>11 DEF Remove
  <2> HIDE DEF old, left, list
  <2>6. Cardinality(UnreadIn(list)) <= unread - 1 /\ unread - 1 \in Nat
    BY <1>2, <1>6, <1>9, <1>10, <2>3, <2>4
  <2>7. QED
    BY <1>4, <2>5, <2>6, TabShown, TabWith
<1>12. CASE ~IsUnread(held, k)
  <2>1. Cardinality(left) <= Cardinality(old)
    BY <1>6, FS_Subset
  <2>2. Remove(tab, id) = Holding(tab, list, unread)
    BY <1>1, <1>12 DEF Remove
  <2> HIDE DEF old, left, list
  <2>3. Cardinality(UnreadIn(list)) <= unread
    BY <1>2, <1>6, <1>9, <1>10, <2>1
  <2>4. QED
    BY <1>2, <1>4, <2>2, <2>3, TabShown, TabWith
<1>13. QED
  BY <1>11, <1>12

-----------------------------------------------------------------------------
(* What the servers and tabs hold.                                         *)

TabsIInv == PushTypeOK /\ \A t \in Tab : Shows(tabs[t])

LEMMA TabsInitIInv == ASSUME PushInit PROVE TabsIInv
<1>1. PushTypeOK
  BY DEF PushInit, PushTypeOK, ServerState, Phase, TabState
<1>2. ASSUME NEW t \in Tab PROVE Shows(tabs[t])
  <2>1. tabs[t].notes = <<>> /\ tabs[t].unread = 0 /\ UnreadIn(<<>>) = {}
    BY DEF PushInit, UnreadIn
  <2>2. Cardinality(UnreadIn(<<>>)) = 0
    BY <2>1, FS_EmptySet
  <2>3. QED
    BY <1>1, <2>1, <2>2 DEF Shows, PushTypeOK
<1>3. QED
  BY <1>1, <1>2 DEF TabsIInv

\* What is in a tab without its notifications may change at will.
LEMMA TabKept ==
    ASSUME NEW old, Shows(old), NEW tab \in TabState,
           tab.notes = old.notes, tab.unread = old.unread
    PROVE  Shows(tab)
  BY DEF Shows

LEMMA TabsShown ==
    ASSUME NEW shown, \A t \in Tab : Shows(shown[t]), NEW t \in Tab, NEW tab,
           Shows(tab), shown \in [Tab -> TabState]
    PROVE  /\ [shown EXCEPT ![t] = tab] \in [Tab -> TabState]
           /\ \A r \in Tab : Shows([shown EXCEPT ![t] = tab][r])
  BY DEF Shows

LEMMA SocketsClosed ==
    ASSUME PushTypeOK, NEW S, CloseSockets(S)
    PROVE  /\ sockets' \in [SocketId -> SocketDoc \cup {None, Deleted}]
           /\ wire' \in [SocketId -> Seq(Update)]
  BY DEF PushTypeOK, CloseSockets

LEMMA SocketKnown ==
    ASSUME PushTypeOK, NEW s \in Connected
    PROVE  s \in SocketId /\ sockets[s] \in SocketDoc
  BY DEF PushTypeOK, Connected, StoredIn

LEMMA LogInIInv ==
    ASSUME TabsIInv, NEW t \in Tab, NEW u \in Viewer, LogIn(t, u)
    PROVE  TabsIInv'
<1> DEFINE tab == [tabs[t] EXCEPT !.user = u, !.socket = None, !.emits = TRUE,
                                  !.lost = FALSE]
<1>1. tab \in TabState /\ tab.notes = tabs[t].notes /\ tab.unread = tabs[t].unread
  BY DEF TabsIInv, PushTypeOK, TabState
<1>2. tabs' = [tabs EXCEPT ![t] = tab]
  BY DEF LogIn
<1> HIDE DEF tab
<1>3. Shows(tab)
  BY <1>1, TabKept DEF TabsIInv
<1>4. tabs' \in [Tab -> TabState] /\ \A r \in Tab : Shows(tabs'[r])
  BY <1>2, <1>3, TabsShown DEF TabsIInv, PushTypeOK
<1>5. QED
  BY <1>4, SocketsClosed DEF TabsIInv, PushTypeOK, LogIn

LEMMA LogOutIInv ==
    ASSUME TabsIInv, NEW t \in Tab, LogOut(t)
    PROVE  TabsIInv'
<1> DEFINE tab == [tabs[t] EXCEPT !.user = None, !.socket = None, !.emits = FALSE]
<1>1. tab \in TabState /\ tab.notes = tabs[t].notes /\ tab.unread = tabs[t].unread
  BY DEF TabsIInv, PushTypeOK, TabState
<1>2. tabs' = [tabs EXCEPT ![t] = tab]
  BY DEF LogOut
<1> HIDE DEF tab
<1>3. Shows(tab)
  BY <1>1, TabKept DEF TabsIInv
<1>4. tabs' \in [Tab -> TabState] /\ \A r \in Tab : Shows(tabs'[r])
  BY <1>2, <1>3, TabsShown DEF TabsIInv, PushTypeOK
<1>5. QED
  BY <1>4, SocketsClosed DEF TabsIInv, PushTypeOK, LogOut

LEMMA LoseConnectionIInv ==
    ASSUME TabsIInv, NEW t \in Tab, LoseConnection(t)
    PROVE  TabsIInv'
<1> DEFINE tab == [tabs[t] EXCEPT !.socket = None, !.emits = FALSE, !.lost = TRUE]
<1>1. tab \in TabState /\ tab.notes = tabs[t].notes /\ tab.unread = tabs[t].unread
  BY DEF TabsIInv, PushTypeOK, TabState
<1>2. tabs' = [tabs EXCEPT ![t] = tab]
  BY DEF LoseConnection
<1> HIDE DEF tab
<1>3. Shows(tab)
  BY <1>1, TabKept DEF TabsIInv
<1>4. tabs' \in [Tab -> TabState] /\ \A r \in Tab : Shows(tabs'[r])
  BY <1>2, <1>3, TabsShown DEF TabsIInv, PushTypeOK
<1>5. QED
  BY <1>4, SocketsClosed DEF TabsIInv, PushTypeOK, LoseConnection

LEMMA OpenConnectionIInv ==
    ASSUME TabsIInv, NEW t \in Tab, OpenConnection(t)
    PROVE  TabsIInv'
<1>1. PICK s \in UnusedIn(sockets), srv \in Server :
          /\ sockets' = [sockets EXCEPT ![s] =
                [server |-> srv, user |-> tabs[t].user, inRoom |-> FALSE,
                 left |-> FALSE]]
          /\ tabs' = [tabs EXCEPT ![t].socket = s]
  BY DEF OpenConnection
<1> DEFINE tab == [tabs[t] EXCEPT !.socket = s]
           socket == [server |-> srv, user |-> tabs[t].user, inRoom |-> FALSE,
                      left |-> FALSE]
<1>2. s \in SocketId
  BY DEF UnusedIn, TabsIInv, PushTypeOK
<1>3. /\ tab \in TabState /\ tab.notes = tabs[t].notes /\ tab.unread = tabs[t].unread
      /\ tabs[t].user \in Viewer
  BY <1>2 DEF TabsIInv, PushTypeOK, TabState, OpenConnection
<1>4. socket \in SocketDoc
  BY <1>3 DEF SocketDoc
<1>5. tabs' = [tabs EXCEPT ![t] = tab]
  BY <1>1 DEF TabsIInv, PushTypeOK
<1> HIDE DEF tab, socket
<1>6. Shows(tab)
  BY <1>3, TabKept DEF TabsIInv
<1>7. tabs' \in [Tab -> TabState] /\ \A r \in Tab : Shows(tabs'[r])
  BY <1>5, <1>6, TabsShown DEF TabsIInv, PushTypeOK
<1>8. sockets' \in [SocketId -> SocketDoc \cup {None, Deleted}]
  BY <1>1, <1>4 DEF TabsIInv, PushTypeOK, socket
<1>9. QED
  BY <1>7, <1>8 DEF TabsIInv, PushTypeOK, OpenConnection

\* An update comes over an open connection of the tab.
LEMMA ReceiveIInv ==
    ASSUME TabsIInv, NEW t \in Tab, NEW tab, Receive(t, tab), Shows(tab)
    PROVE  TabsIInv'
<1>1. tabs' \in [Tab -> TabState] /\ \A r \in Tab : Shows(tabs'[r])
  BY TabsShown DEF TabsIInv, PushTypeOK, Receive
<1>2. wire' \in [SocketId -> Seq(Update)]
  <2>1. PICK s : s = tabs[t].socket /\ s # None /\ wire[s] # <<>>
                  /\ wire' = [wire EXCEPT ![s] = Tail(@)]
    BY DEF Receive
  <2>2. s \in SocketId /\ wire[s] \in Seq(Update)
    BY <2>1 DEF TabsIInv, PushTypeOK, TabState
  <2>3. Tail(wire[s]) \in Seq(Update)
    BY <2>1, <2>2
  <2>4. QED
    BY <2>1, <2>3 DEF TabsIInv, PushTypeOK
<1>3. QED
  BY <1>1, <1>2 DEF TabsIInv, PushTypeOK, Receive

LEMMA NotifiedShows ==
    ASSUME TabsIInv, NEW t \in Tab, NEW tab, Receive(t, tab)
    PROVE  Shows(Notified(t))
<1>1. PICK s : s = tabs[t].socket /\ s # None /\ wire[s] # <<>>
  BY DEF Receive
<1>2. s \in SocketId /\ wire[s] \in Seq(Update)
  BY <1>1 DEF TabsIInv, PushTypeOK, TabState
<1>3. Head(wire[s]) \in Update
  BY <1>1, <1>2
<1>4. Head(wire[s]).id \in MessageId
  BY <1>3 DEF Update
<1>5. QED
  BY <1>1, <1>4, AddShows DEF TabsIInv, Notified

LEMMA UserReadsIInv ==
    ASSUME TabsIInv, NEW t \in Tab, UserReads(t)
    PROVE  TabsIInv'
<1>1. PICK tab : tabs' = [tabs EXCEPT ![t] = tab] /\ Shows(tab)
  BY ReadShows, RemoveShows, ReadAllShows, ClearShows DEF UserReads, TabsIInv
<1>2. tabs' \in [Tab -> TabState] /\ \A r \in Tab : Shows(tabs'[r])
  BY <1>1, TabsShown DEF TabsIInv, PushTypeOK
<1>3. QED
  BY <1>2 DEF TabsIInv, PushTypeOK, UserReads

LEMMA TabStepIInv ==
    ASSUME TabsIInv, NEW t \in Tab, TabStep(t)
    PROVE  TabsIInv'
<1>1. ASSUME NEW u \in Viewer, LogIn(t, u) PROVE TabsIInv'
  BY <1>1, LogInIInv
<1>2. CASE OpenConnection(t)
  BY <1>2, OpenConnectionIInv
<1>3. CASE LoseConnection(t)
  BY <1>3, LoseConnectionIInv
<1>4. CASE LogOut(t)
  BY <1>4, LogOutIInv
<1>5. CASE ReceiveOrder(t) \/ ReceivePosition(t) \/ ReceiveNotification(t)
  <2>1. PICK tab : Receive(t, tab) /\ tab \in {tabs[t], Notified(t)}
    BY <1>5 DEF ReceiveOrder, ReceivePosition, ReceiveNotification
  <2>2. Shows(tab)
    BY <2>1, NotifiedShows DEF TabsIInv
  <2>3. QED
    BY <2>1, <2>2, ReceiveIInv
<1>6. CASE UserReads(t)
  BY <1>6, UserReadsIInv
<1>7. QED
  BY <1>1, <1>2, <1>3, <1>4, <1>5, <1>6 DEF TabStep

LEMMA EndProcessIInv ==
    ASSUME TabsIInv, NEW srv \in Server, EndProcess(srv)
    PROVE  TabsIInv'
<1>1. ASSUME NEW t \in Tab PROVE Shows(tabs'[t])
  <2> DEFINE tab == [tabs[t] EXCEPT !.socket = None, !.emits = FALSE, !.lost = TRUE]
  <2>1. tab \in TabState /\ tab.notes = tabs[t].notes /\ tab.unread = tabs[t].unread
    BY DEF TabsIInv, PushTypeOK, TabState
  <2>2. tabs'[t] \in {tab, tabs[t]}
    BY DEF EndProcess
  <2> HIDE DEF tab
  <2>3. QED
    BY <2>1, <2>2, TabKept DEF TabsIInv
<1>2. tabs' \in [Tab -> TabState]
  <2>1. tabs' = [t \in Tab |-> tabs'[t]]
    BY DEF EndProcess
  <2>2. QED
    BY <1>1, <2>1 DEF Shows
<1>3. servers' \in [Server -> ServerState]
  BY DEF TabsIInv, PushTypeOK, EndProcess, EntersPhase, ServerState, Phase
<1>4. /\ sockets' \in [SocketId -> SocketDoc \cup {None, Deleted}]
      /\ wire' \in [SocketId -> Seq(Update)]
  BY SocketsClosed DEF EndProcess, TabsIInv
<1>5. /\ subscribed' \in [Server -> SUBSET Viewer]
      /\ silenced' \in [Server -> SUBSET Viewer]
      /\ bus' \in [Server -> Seq(Update)]
      /\ UNCHANGED <<stream, published>>
  <2>1. <<>> \in Seq(Update)
    OBVIOUS
  <2>2. QED
    BY <2>1 DEF TabsIInv, PushTypeOK, EndProcess
<1>6. QED
  BY <1>1, <1>2, <1>3, <1>4, <1>5 DEF TabsIInv, PushTypeOK

\* Starting, stopping, subscribing, relaying.
LEMMA ServiceStepIInv ==
    ASSUME TabsIInv, NEW srv \in Server, ServiceStep(srv)
    PROVE  TabsIInv'
<1>1. CASE Start(srv)
  BY <1>1 DEF Start, EntersPhase, TabsIInv, PushTypeOK, ServerState, Phase
<1>2. CASE Stop(srv)
  <2>1. <<>> \in Seq(Update)
    OBVIOUS
  <2>2. servers' \in [Server -> ServerState]
    BY <1>2 DEF Stop, EntersPhase, TabsIInv, PushTypeOK, ServerState, Phase
  <2>3. bus' \in [Server -> Seq(Update)]
    BY <1>2, <2>1 DEF Stop, TabsIInv, PushTypeOK
  <2>4. QED
    BY <1>2, <2>2, <2>3 DEF Stop, TabsIInv, PushTypeOK
<1>3. CASE HandleSubscribe(srv)
  <2>1. PICK t, s :
            /\ t \in Tab
            /\ s = tabs[t].socket /\ s \in SocketsOf(srv)
            /\ subscribed' = [subscribed EXCEPT ![srv] = @ \cup {sockets[s].user}]
            /\ silenced' = [silenced EXCEPT ![srv] = @ \ {sockets[s].user}]
            /\ sockets' = [sockets EXCEPT ![s].inRoom = TRUE]
            /\ tabs' = [tabs EXCEPT ![t].emits = FALSE]
            /\ UNCHANGED <<stream, servers, bus, wire, published>>
    BY <1>3 DEF HandleSubscribe
  <2> DEFINE tab == [tabs[t] EXCEPT !.emits = FALSE]
             socket == [sockets[s] EXCEPT !.inRoom = TRUE]
  <2>2. s \in SocketId /\ sockets[s] \in SocketDoc
    BY <2>1, SocketKnown DEF SocketsOf, TabsIInv
  <2>3. socket \in SocketDoc /\ sockets[s].user \in Viewer
    BY <2>2 DEF SocketDoc
  <2>4. tab \in TabState /\ tab.notes = tabs[t].notes /\ tab.unread = tabs[t].unread
    BY <2>1 DEF TabsIInv, PushTypeOK, TabState
  <2>5. tabs' = [tabs EXCEPT ![t] = tab] /\ sockets' = [sockets EXCEPT ![s] = socket]
    BY <2>1 DEF TabsIInv, PushTypeOK
  <2> HIDE DEF tab, socket
  <2>6. tabs' \in [Tab -> TabState] /\ \A r \in Tab : Shows(tabs'[r])
    <3>1. t \in Tab /\ tabs' = [tabs EXCEPT ![t] = tab]
      BY <2>1, <2>5
    <3>2. Shows(tab)
      BY <2>4, <3>1, TabKept DEF TabsIInv
    <3>3. tabs \in [Tab -> TabState] /\ \A r \in Tab : Shows(tabs[r])
      BY DEF TabsIInv, PushTypeOK
    <3>4. tabs' \in [Tab -> TabState]
      BY <2>4, <3>1, <3>3
    <3>5. QED
      BY <3>1, <3>2, <3>3, <3>4
  <2>7. /\ sockets' \in [SocketId -> SocketDoc \cup {None, Deleted}]
        /\ subscribed' \in [Server -> SUBSET Viewer]
        /\ silenced' \in [Server -> SUBSET Viewer]
    <3>1. sockets' \in [SocketId -> SocketDoc \cup {None, Deleted}]
      BY <2>3, <2>5 DEF TabsIInv, PushTypeOK
    <3>2. PICK u \in Viewer : u = sockets[s].user
      BY <2>3
    <3>3. /\ subscribed' = [subscribed EXCEPT ![srv] = @ \cup {u}]
          /\ silenced' = [silenced EXCEPT ![srv] = @ \ {u}]
      BY <2>1, <3>2
    <3>4. QED
      BY <3>1, <3>3 DEF TabsIInv, PushTypeOK
  <2>8. QED
    BY <2>1, <2>6, <2>7 DEF TabsIInv, PushTypeOK
<1>4. CASE HandleUnsubscribe(srv)
  <2>1. PICK s \in SocketsOf(srv) :
            /\ subscribed' = [subscribed EXCEPT ![srv] = @ \ {sockets[s].user}]
            /\ silenced' = [silenced EXCEPT ![srv] = @ \cup {sockets[s].user}]
            /\ sockets' = [sockets EXCEPT ![s].inRoom = FALSE, ![s].left = TRUE]
            /\ UNCHANGED <<stream, servers, tabs, bus, wire, published>>
    BY <1>4 DEF HandleUnsubscribe
  <2> DEFINE socket == [sockets[s] EXCEPT !.inRoom = FALSE, !.left = TRUE]
  <2>2. s \in SocketId /\ sockets[s] \in SocketDoc
    BY SocketKnown DEF SocketsOf, TabsIInv
  <2>3. socket \in SocketDoc /\ sockets[s].user \in Viewer
    BY <2>2 DEF SocketDoc
  <2>4. sockets' = [sockets EXCEPT ![s] = socket]
    BY <2>1 DEF TabsIInv, PushTypeOK
  <2> HIDE DEF socket
  <2>5. /\ sockets' \in [SocketId -> SocketDoc \cup {None, Deleted}]
        /\ subscribed' \in [Server -> SUBSET Viewer]
        /\ silenced' \in [Server -> SUBSET Viewer]
    BY <2>1, <2>3, <2>4 DEF TabsIInv, PushTypeOK
  <2>6. QED
    BY <2>1, <2>5 DEF TabsIInv, PushTypeOK
<1>5. CASE Relay(srv)
  <2>1. PICK m : m = Head(bus[srv])
    OBVIOUS
  <2>2. bus[srv] \in Seq(Update) /\ bus[srv] # <<>>
    BY <1>5 DEF Relay, TabsIInv, PushTypeOK
  <2>3. m \in Update /\ Tail(bus[srv]) \in Seq(Update)
    BY <2>1, <2>2
  <2>4. bus' \in [Server -> Seq(Update)]
    BY <1>5, <2>3 DEF Relay, TabsIInv, PushTypeOK
  <2>5. ASSUME NEW s \in SocketId
        PROVE  wire[s] \in Seq(Update) /\ Append(wire[s], m) \in Seq(Update)
    BY <2>3 DEF TabsIInv, PushTypeOK
  <2>6. wire' \in [SocketId -> Seq(Update)]
    BY <1>5, <2>1, <2>5 DEF Relay
  <2>7. QED
    BY <1>5, <2>4, <2>6 DEF Relay, TabsIInv, PushTypeOK
<1>6. QED
  BY <1>1, <1>2, <1>3, <1>4, <1>5 DEF ServiceStep

LEMMA TabsStepIInv ==
    ASSUME TabsIInv, [PushNext]_pushVars PROVE TabsIInv'
<1>1. ASSUME NEW t \in Tab, TabStep(t) PROVE TabsIInv'
  BY <1>1, TabStepIInv
<1>2. ASSUME NEW srv \in Server, StartListening(srv) PROVE TabsIInv'
  BY <1>2 DEF StartListening, TabsIInv, PushTypeOK, ServerState, Phase
<1>3. ASSUME NEW srv \in Server, ServiceStep(srv) PROVE TabsIInv'
  BY <1>3, ServiceStepIInv
<1>4. ASSUME NEW srv \in Server, EndProcess(srv) PROVE TabsIInv'
  BY <1>4, EndProcessIInv
<1>5. ASSUME NEW m \in Update, Publish(m) PROVE TabsIInv'
  <2>1. m.id \in MessageId
    BY DEF Update
  <2>2. ASSUME NEW srv \in Server
        PROVE  bus[srv] \in Seq(Update) /\ Append(bus[srv], m) \in Seq(Update)
    BY DEF TabsIInv, PushTypeOK
  <2>3. bus' \in [Server -> Seq(Update)]
    BY <1>5, <2>2 DEF Publish
  <2>4. QED
    BY <1>5, <2>1, <2>3 DEF Publish, TabsIInv, PushTypeOK
<1>6. CASE UNCHANGED pushVars
  BY <1>6 DEF pushVars, TabsIInv, PushTypeOK
<1>7. QED
  BY <1>1, <1>2, <1>3, <1>4, <1>5, <1>6
  DEF PushNext, ServerStep, OrderService, PositionService, NotificationService

LEMMA TabsIInvHolds == PushSpec => []TabsIInv
<1>1. PushInit => TabsIInv
  BY TabsInitIInv
<1>2. TabsIInv /\ [PushNext]_pushVars => TabsIInv'
  BY TabsStepIInv
<1>3. QED
  BY <1>1, <1>2, PTL DEF PushSpec

\* Type correctness: what the servers, Redis, the connections and the tabs hold
\* stays as declared.
THEOREM PushTypeCorrect == PushSpec => []PushTypeOK
<1>1. TabsIInv => PushTypeOK
  BY DEF TabsIInv
<1>2. QED
  BY <1>1, TabsIInvHolds, PTL

\* The badge never hides a notification, for any number of servers, tabs and
\* updates: whatever arrives twice and in whatever order the user reads and
\* removes, the unread count is at least the number of unread notifications
\* (addNotification, markAsRead, removeNotification of notificationSlice).
THEOREM UnreadShown == PushSpec => []NoUnreadHidden
<1>1. TabsIInv => NoUnreadHidden
  BY DEF TabsIInv, NoUnreadHidden, Shows
<1>2. QED
  BY <1>1, TabsIInvHolds, PTL

-----------------------------------------------------------------------------
(***************************************************************************)
(* MarketData: any pages, connections, symbols and subscribe() calls in    *)
(* progress.                                                               *)
(***************************************************************************)

\* Who is subscribed to a symbol finds its data in the cache.
CachedIfSubscribed ==
    \A x \in Symbol : subscribedSymbols[x] # {} => x \in marketDataCache

\* A page's connection is open and no other page's; a page without one has
\* chosen nothing on it.
Lines ==
    /\ \A p \in Page :
          IF pages[p].line = None
          THEN pages[p].symbols = {} /\ pages[p].events = <<>>
          ELSE connections[pages[p].line] = "open"
    /\ \A p, q \in Page :
          pages[p].line = pages[q].line => p = q \/ pages[p].line = None

\* A subscribe() call that has yielded is one of a connection that was opened,
\* and waits for the data of the first symbol it has left.
Calls ==
    \A h \in Handler :
        IF subscribes[h].line = None
        THEN subscribes[h] = NoSubscribe
        ELSE /\ connections[subscribes[h].line] # None
             /\ subscribes[h].todo # <<>>

Mentions(event, x) == x \in SetOf(event.symbols)

\* A symbol that some event drops is asked for again by a later one.
AskedLast(events, x) ==
    \A i \in 1..Len(events) :
        ~events[i].subscribe /\ Mentions(events[i], x) =>
            \E j \in 1..Len(events) :
                j > i /\ events[j].subscribe /\ Mentions(events[j], x)

Asked(events, x) ==
    \E i \in 1..Len(events) : events[i].subscribe /\ Mentions(events[i], x)

\* The connection is in the room and has an entry, and the data was sent or is
\* what a call is waiting for.
Joined(c, x) ==
    /\ c \in marketRooms[x]
    /\ c \in subscribedSymbols[x]
    /\ \/ x \in pricesSent[c]
       \/ \E h \in Handler : subscribes[h].line = c /\ Head(subscribes[h].todo) = x

\* A call has yet to come to the symbol.
InCall(c, x) ==
    \E h \in Handler :
        subscribes[h].line = c /\ x \in SetOf(Tail(subscribes[h].todo))

\* What a page has chosen is asked for, on its way through a call, or joined.
OnItsWay(p, x) ==
    /\ AskedLast(pages[p].events, x)
    /\ \/ Asked(pages[p].events, x)
       \/ InCall(pages[p].line, x)
       \/ Joined(pages[p].line, x)

ChosenOnWay == \A p \in Page : \A x \in pages[p].symbols : OnItsWay(p, x)

MarketIInv == MarketTypeOK /\ CachedIfSubscribed /\ Lines /\ Calls /\ ChosenOnWay

LEMMA MarketInitIInv == MarketInit => MarketIInv
<1> SUFFICES ASSUME MarketInit PROVE MarketIInv
  OBVIOUS
<1>1. MarketTypeOK
  <2>1. <<>> \in Seq(Symbol) /\ <<>> \in Seq(MarketEvent)
    OBVIOUS
  <2>2. QED
    BY <2>1 DEF MarketInit, MarketTypeOK, NoSubscribe, Subscribe, PageState
<1>2. CachedIfSubscribed /\ Lines /\ Calls /\ ChosenOnWay
  BY DEF MarketInit, CachedIfSubscribed, Lines, Calls, ChosenOnWay, NoSubscribe
<1>3. QED
  BY <1>1, <1>2 DEF MarketIInv

-----------------------------------------------------------------------------
(* Events in the order they were emitted.                                  *)

LEMMA AskedAppended ==
    ASSUME NEW events \in Seq(MarketEvent), NEW e \in MarketEvent, NEW x
    PROVE  /\ AskedLast(events, x) /\ (e.subscribe \/ ~Mentions(e, x)) =>
                 AskedLast(Append(events, e), x)
           /\ Asked(events, x) => Asked(Append(events, e), x)
           /\ e.subscribe /\ Mentions(e, x) =>
                 AskedLast(Append(events, e), x) /\ Asked(Append(events, e), x)
<1> DEFINE more == Append(events, e)
           n == Len(events)
<1>1. /\ n \in Nat /\ Len(more) = n + 1 /\ more[n + 1] = e
      /\ \A i \in 1..n : more[i] = events[i]
  OBVIOUS
<1> HIDE DEF more, n
<1>2. ASSUME AskedLast(events, x), e.subscribe \/ ~Mentions(e, x)
      PROVE  AskedLast(more, x)
  <2> SUFFICES ASSUME NEW i \in 1..Len(more), ~more[i].subscribe, Mentions(more[i], x)
               PROVE  \E j \in 1..Len(more) :
                          j > i /\ more[j].subscribe /\ Mentions(more[j], x)
    BY DEF AskedLast
  <2>1. i \in 1..n /\ ~events[i].subscribe /\ Mentions(events[i], x)
    BY <1>1, <1>2
  <2>2. PICK j \in 1..n : j > i /\ events[j].subscribe /\ Mentions(events[j], x)
    BY <1>2, <2>1 DEF AskedLast, n
  <2>3. QED
    BY <1>1, <2>2
<1>3. ASSUME Asked(events, x) PROVE Asked(more, x)
  BY <1>1, <1>3 DEF Asked, n
<1>4. ASSUME e.subscribe, Mentions(e, x)
      PROVE  AskedLast(more, x) /\ Asked(more, x)
  <2>1. \A i \in 1..Len(more) : ~more[i].subscribe => n + 1 > i
    BY <1>1, <1>4
  <2>2. QED
    BY <1>1, <1>4, <2>1 DEF Asked, AskedLast
<1>5. QED
  BY <1>2, <1>3, <1>4 DEF more

\* The first event is handled: it is not that one which asks for x.
LEMMA AskedHandled ==
    ASSUME NEW events \in Seq(MarketEvent), events # <<>>, NEW x, AskedLast(events, x)
    PROVE  /\ AskedLast(Tail(events), x)
           /\ Asked(events, x) => \/ Asked(Tail(events), x)
                                  \/ (Head(events).subscribe /\ Mentions(Head(events), x))
           /\ ~Head(events).subscribe /\ Mentions(Head(events), x) =>
                  Asked(Tail(events), x)
<1> DEFINE rest == Tail(events)
           n == Len(events)
<1>1. /\ n \in Nat \ {0} /\ Len(rest) = n - 1 /\ Head(events) = events[1]
      /\ \A i \in 1..(n - 1) : rest[i] = events[i + 1]
  OBVIOUS
<1> HIDE DEF rest, n
<1>2. AskedLast(rest, x)
  <2> SUFFICES ASSUME NEW i \in 1..Len(rest), ~rest[i].subscribe, Mentions(rest[i], x)
               PROVE  \E j \in 1..Len(rest) :
                          j > i /\ rest[j].subscribe /\ Mentions(rest[j], x)
    BY DEF AskedLast
  <2>1. i + 1 \in 1..n /\ ~events[i + 1].subscribe /\ Mentions(events[i + 1], x)
    BY <1>1
  <2>2. PICK j \in 1..n : j > i + 1 /\ events[j].subscribe /\ Mentions(events[j], x)
    BY <2>1 DEF AskedLast, n
  <2>3. j - 1 \in 1..(n - 1) /\ j - 1 > i /\ (j - 1) + 1 = j
    BY <1>1, <2>2
  <2>4. rest[j - 1] = events[j]
    BY <1>1, <2>3
  <2>5. QED
    BY <1>1, <2>2, <2>3, <2>4
<1>3. ASSUME NEW i \in 1..n, i > 1, events[i].subscribe, Mentions(events[i], x)
      PROVE  Asked(rest, x)
  <2>1. i - 1 \in 1..(n - 1) /\ (i - 1) + 1 = i
    BY <1>1, <1>3
  <2>2. rest[i - 1] = events[i]
    BY <1>1, <2>1
  <2>3. QED
    BY <1>1, <1>3, <2>1, <2>2 DEF Asked
<1>4. ASSUME Asked(events, x)
      PROVE  Asked(rest, x) \/ (Head(events).subscribe /\ Mentions(Head(events), x))
  <2>1. PICK i \in 1..n : events[i].subscribe /\ Mentions(events[i], x)
    BY <1>4 DEF Asked, n
  <2>2. CASE i = 1
    BY <1>1, <2>1, <2>2
  <2>3. CASE i > 1
    BY <1>3, <2>1, <2>3
  <2>4. QED
    BY <1>1, <2>2, <2>3
<1>5. ASSUME ~Head(events).subscribe, Mentions(Head(events), x) PROVE Asked(rest, x)
  <2>1. 1 \in 1..n /\ ~events[1].subscribe /\ Mentions(events[1], x)
    BY <1>1, <1>5
  <2>2. PICK i \in 1..n : i > 1 /\ events[i].subscribe /\ Mentions(events[i], x)
    BY <2>1 DEF AskedLast, n
  <2>3. QED
    BY <1>3, <2>2
<1>6. QED
  BY <1>2, <1>4, <1>5 DEF rest

-----------------------------------------------------------------------------
(* Steps of pages and of broadcasts: no call moves.                        *)

\* The pages that do not move keep what is on its way to them, as long as the
\* server drops nothing of theirs.
LEMMA StillOnItsWay ==
    ASSUME NEW p \in Page, NEW x, OnItsWay(p, x),
           pages'[p].line = pages[p].line, pages'[p].events = pages[p].events,
           UNCHANGED subscribes,
           pages[p].line \in marketRooms[x] => pages[p].line \in marketRooms'[x],
           pages[p].line \in subscribedSymbols[x] =>
               pages[p].line \in subscribedSymbols'[x],
           x \in pricesSent[pages[p].line] => x \in pricesSent'[pages[p].line]
    PROVE  OnItsWay(p, x)'
  BY DEF OnItsWay, InCall, Joined

\* One page moves, and nothing at the server.
LEMMA PageMoves ==
    ASSUME MarketIInv, NEW p \in Page, NEW page \in PageState,
           pages' = [pages EXCEPT ![p] = page],
           UNCHANGED <<serverVars, connections, pricesSent>>,
           page.line = pages[p].line,
           page.line = None => page.symbols = {} /\ page.events = <<>>,
           \A x \in page.symbols :
               /\ AskedLast(page.events, x)
               /\ \/ Asked(page.events, x)
                  \/ InCall(page.line, x)
                  \/ Joined(page.line, x)
    PROVE  MarketIInv'
<1>1. MarketTypeOK' /\ CachedIfSubscribed' /\ Calls'
  BY DEF MarketIInv, MarketTypeOK, CachedIfSubscribed, Calls, serverVars
<1>2. /\ pages'[p] = page
      /\ \A q \in Page \ {p} : pages'[q] = pages[q]
  BY DEF MarketIInv, MarketTypeOK
<1>3. Lines'
  BY <1>2 DEF MarketIInv, Lines
<1>4. ASSUME NEW q \in Page, NEW x \in pages'[q].symbols PROVE OnItsWay(q, x)'
  <2>1. CASE q = p
    BY <1>2, <2>1 DEF OnItsWay, InCall, Joined, serverVars
  <2>2. CASE q # p
    BY <1>2, <2>2, StillOnItsWay DEF MarketIInv, ChosenOnWay, serverVars
  <2>3. QED
    BY <2>1, <2>2
<1>5. QED
  BY <1>1, <1>3, <1>4 DEF MarketIInv, ChosenOnWay

LEMMA PageType ==
    ASSUME MarketIInv, NEW p \in Page
    PROVE  /\ pages[p] \in PageState
           /\ pages[p].line \in Connection \cup {None}
           /\ pages[p].symbols \subseteq Symbol
           /\ pages[p].events \in Seq(MarketEvent)
           /\ \A x \in pages[p].symbols : OnItsWay(p, x)
  BY DEF MarketIInv, MarketTypeOK, PageState, ChosenOnWay

LEMMA ChooseIInv ==
    ASSUME MarketIInv, NEW p \in Page, NEW list \in ListChoice, Choose(p, list)
    PROVE  MarketIInv'
<1> DEFINE e == [subscribe |-> TRUE, symbols |-> list]
           events == Append(pages[p].events, e)
           page == [pages[p] EXCEPT !.symbols = @ \cup SetOf(list), !.events = events]
<1>1. /\ list \in Seq(Symbol) /\ SetOf(list) \subseteq Symbol
      /\ e \in MarketEvent /\ e.subscribe /\ \A x \in SetOf(list) : Mentions(e, x)
  BY MarketDataAssumption DEF SetOf, MarketEvent, Mentions
<1>2. /\ pages[p].line # None
      /\ pages' = [pages EXCEPT ![p] = page]
      /\ UNCHANGED <<serverVars, connections, pricesSent>>
  BY DEF Choose
<1> HIDE DEF e
<1>3. /\ page \in PageState /\ page.line = pages[p].line
      /\ page.symbols = pages[p].symbols \cup SetOf(list)
      /\ page.events = events
  <2>1. events \in Seq(MarketEvent)
    BY <1>1, PageType
  <2> HIDE DEF events
  <2>2. QED
    BY <1>1, <2>1, PageType DEF PageState
<1> HIDE DEF page
<1>4. ASSUME NEW x \in page.symbols
      PROVE  /\ AskedLast(page.events, x)
             /\ \/ Asked(page.events, x)
                \/ InCall(page.line, x)
                \/ Joined(page.line, x)
  <2>1. CASE x \in pages[p].symbols
    <3>1. OnItsWay(p, x) /\ pages[p].events \in Seq(MarketEvent)
      BY <2>1, PageType
    <3>2. QED
      BY <1>1, <1>3, <3>1, AskedAppended DEF OnItsWay
  <2>2. CASE x \in SetOf(list)
    BY <1>1, <1>3, <2>2, PageType, AskedAppended
  <2>3. QED
    BY <1>3, <2>1, <2>2
<1>5. QED
  BY <1>2, <1>3, <1>4, PageMoves

LEMMA UnchooseIInv ==
    ASSUME MarketIInv, NEW p \in Page, NEW list \in ListChoice, Unchoose(p, list)
    PROVE  MarketIInv'
<1> DEFINE e == [subscribe |-> FALSE, symbols |-> list]
           events == IF pages[p].line = None THEN pages[p].events
                     ELSE Append(pages[p].events, e)
           page == [pages[p] EXCEPT !.symbols = @ \ SetOf(list), !.events = events]
<1>1. /\ e \in MarketEvent /\ ~e.subscribe /\ \A x : Mentions(e, x) <=> x \in SetOf(list)
  BY MarketDataAssumption DEF MarketEvent, Mentions
<1>2. /\ pages' = [pages EXCEPT ![p] = page]
      /\ UNCHANGED <<serverVars, connections, pricesSent>>
  BY DEF Unchoose
<1> HIDE DEF e
<1>3. /\ events \in Seq(MarketEvent)
      /\ pages[p].line = None => pages[p].symbols = {} /\ pages[p].events = <<>>
  BY <1>1, PageType DEF MarketIInv, Lines
<1>4. /\ page \in PageState /\ page.line = pages[p].line
      /\ page.symbols = pages[p].symbols \ SetOf(list)
      /\ page.events = events
  <2> HIDE DEF events
  <2>1. QED
    BY <1>3, PageType DEF PageState
<1> HIDE DEF page
<1>5. ASSUME NEW x \in page.symbols
      PROVE  /\ AskedLast(page.events, x)
             /\ \/ Asked(page.events, x)
                \/ InCall(page.line, x)
                \/ Joined(page.line, x)
  <2>1. OnItsWay(p, x) /\ pages[p].events \in Seq(MarketEvent) /\ ~Mentions(e, x)
    BY <1>1, <1>4, PageType
  <2>2. /\ AskedLast(events, x)
        /\ Asked(pages[p].events, x) => Asked(events, x)
    BY <1>1, <2>1, AskedAppended DEF OnItsWay
  <2>3. QED
    BY <1>4, <2>1, <2>2 DEF OnItsWay
<1>6. page.line = None => page.symbols = {} /\ page.events = <<>>
  BY <1>3, <1>4
<1>7. QED
  BY <1>2, <1>4, <1>5, <1>6, PageMoves

LEMMA ClearMarketDataIInv ==
    ASSUME MarketIInv, NEW p \in Page, ClearMarketData(p)
    PROVE  MarketIInv'
<1> DEFINE page == [pages[p] EXCEPT !.symbols = {}]
<1>1. /\ page \in PageState /\ page.symbols = {}
      /\ page.line = pages[p].line /\ page.events = pages[p].events
  BY PageType DEF PageState
<1>2. page.line = None => page.events = <<>>
  BY <1>1 DEF MarketIInv, Lines
<1>3. pages' = [pages EXCEPT ![p] = page] /\ UNCHANGED <<serverVars, connections, pricesSent>>
  BY DEF ClearMarketData, MarketIInv, MarketTypeOK
<1> HIDE DEF page
<1>4. QED
  BY <1>1, <1>2, <1>3, PageMoves

LEMMA OpenLineIInv ==
    ASSUME MarketIInv, NEW p \in Page, OpenLine(p)
    PROVE  MarketIInv'
<1>1. PICK c \in UnusedIn(connections) :
          /\ connections' = [connections EXCEPT ![c] = "open"]
          /\ pages' = [pages EXCEPT ![p].line = c]
  BY DEF OpenLine
<1>2. c \in Connection /\ connections[c] = None /\ c # None
  BY <1>1, MarketDataAssumption DEF UnusedIn, MarketIInv, MarketTypeOK
<1> DEFINE page == [pages[p] EXCEPT !.line = c]
<1>3. /\ page \in PageState /\ page.line = c /\ page.symbols = {}
      /\ pages[p].line = None /\ pages' = [pages EXCEPT ![p] = page]
  <2>1. pages[p] \in PageState /\ pages[p].line = None
    BY PageType DEF OpenLine
  <2>2. pages[p].symbols = {}
    BY <2>1 DEF MarketIInv, Lines
  <2>3. page \in PageState /\ page.line = c /\ page.symbols = pages[p].symbols
    BY <1>2, <2>1 DEF PageState
  <2>4. pages' = [pages EXCEPT ![p] = page]
    BY <1>1 DEF MarketIInv, MarketTypeOK
  <2>5. QED
    BY <2>1, <2>2, <2>3, <2>4
<1> HIDE DEF page
<1>4. /\ pages'[p] = page
      /\ \A q \in Page \ {p} : pages'[q] = pages[q]
      /\ \A d \in Connection : connections'[d] = IF d = c THEN "open" ELSE connections[d]
      /\ UNCHANGED <<subscribedSymbols, marketRooms, marketDataCache, subscribes,
                     broadcasting, broadcastAt, pricesSent>>
  BY <1>1, <1>3 DEF MarketIInv, MarketTypeOK, OpenLine, serverVars
<1>5. MarketTypeOK'
  BY <1>1, <1>2, <1>3, <1>4 DEF MarketIInv, MarketTypeOK
<1>6. \A q \in Page \ {p} : pages[q].line # c
  <2>1. None # "open"
    BY MarketDataAssumption
  <2>2. QED
    BY <1>2, <2>1 DEF MarketIInv, Lines
<1>7. Lines'
  BY <1>2, <1>3, <1>4, <1>6, PageType DEF MarketIInv, Lines
<1>8. CachedIfSubscribed' /\ Calls'
  BY <1>2, <1>4 DEF MarketIInv, CachedIfSubscribed, Calls, MarketTypeOK, Subscribe
<1>9. ASSUME NEW q \in Page, NEW x \in pages'[q].symbols PROVE OnItsWay(q, x)'
  <2>1. q # p
    BY <1>3, <1>4, <1>9
  <2>2. QED
    BY <1>4, <2>1, StillOnItsWay, PageType
<1>10. QED
  BY <1>5, <1>7, <1>8, <1>9 DEF MarketIInv, ChosenOnWay

LEMMA CloseLineIInv ==
    ASSUME MarketIInv, NEW p \in Page, CloseLine(p)
    PROVE  MarketIInv'
<1>1. PICK c : c = pages[p].line
  OBVIOUS
<1>2. c # None /\ c \in Connection /\ None # "open" /\ Deleted # None
  BY <1>1, PageType, ServiceAssumption, MarketDataAssumption DEF CloseLine
<1> DEFINE page == [pages[p] EXCEPT !.line = None, !.events = <<>>, !.symbols = {}]
<1>3. /\ page \in PageState /\ page.line = None /\ page.symbols = {}
      /\ page.events = <<>> /\ pages' = [pages EXCEPT ![p] = page]
  <2>1. <<>> \in Seq(MarketEvent)
    OBVIOUS
  <2>2. pages[p] \in PageState /\ pages' = [pages EXCEPT ![p] = page]
    BY PageType DEF CloseLine
  <2>3. QED
    BY <2>1, <2>2 DEF PageState
<1> HIDE DEF page
<1>4. /\ pages'[p] = page
      /\ \A q \in Page \ {p} : pages'[q] = pages[q] /\ pages[q].line # c
  BY <1>1, <1>2, <1>3 DEF MarketIInv, MarketTypeOK, Lines
<1>5. /\ \A d \in Connection : connections'[d] = IF d = c THEN Deleted ELSE connections[d]
      /\ \A d \in Connection \ {c} : pricesSent'[d] = pricesSent[d]
      /\ \A x \in Symbol : marketRooms'[x] = marketRooms[x] \ {c}
      /\ UNCHANGED <<subscribedSymbols, marketDataCache, subscribes>>
  BY <1>1 DEF CloseLine, MarketIInv, MarketTypeOK
<1>6. MarketTypeOK'
  BY <1>1, <1>2, <1>3 DEF MarketIInv, MarketTypeOK, CloseLine
<1>7. Lines'
  <2>1. \A q \in Page \ {p} : pages[q].line # None => connections'[pages[q].line] = "open"
    BY <1>4, <1>5, PageType DEF MarketIInv, Lines
  <2>2. QED
    BY <1>2, <1>3, <1>4, <2>1 DEF MarketIInv, Lines
<1>8. CachedIfSubscribed' /\ Calls'
  BY <1>2, <1>5 DEF MarketIInv, CachedIfSubscribed, Calls, MarketTypeOK, Subscribe
<1>9. ASSUME NEW q \in Page, NEW x \in pages'[q].symbols PROVE OnItsWay(q, x)'
  <2>1. q # p /\ x \in pages[q].symbols /\ x \in Symbol /\ pages[q].line # None
    BY <1>3, <1>4, <1>9, PageType DEF MarketIInv, Lines
  <2>2. pages[q].line \in Connection \ {c}
    BY <1>4, <2>1, PageType
  <2>3. QED
    BY <1>4, <1>5, <2>1, <2>2, StillOnItsWay, PageType
<1>10. QED
  BY <1>6, <1>7, <1>8, <1>9 DEF MarketIInv, ChosenOnWay

\* Data is fetched or sent.
LEMMA DataMoves ==
    ASSUME MarketIInv, MarketTypeOK',
           UNCHANGED <<subscribedSymbols, marketRooms, subscribes, pages, connections>>,
           marketDataCache \subseteq marketDataCache',
           \A c \in Connection : pricesSent[c] \subseteq pricesSent'[c]
    PROVE  MarketIInv'
<1>1. CachedIfSubscribed' /\ Calls' /\ Lines'
  BY DEF MarketIInv, CachedIfSubscribed, Calls, Lines
<1>2. ASSUME NEW p \in Page, NEW x \in pages[p].symbols PROVE OnItsWay(p, x)'
  <2>1. pages[p].line \in Connection
    BY PageType DEF MarketIInv, Lines
  <2>2. QED
    BY <2>1, StillOnItsWay, PageType
<1>3. QED
  BY <1>1, <1>2 DEF MarketIInv, ChosenOnWay

LEMMA BroadcastsIInv ==
    ASSUME MarketIInv,
           \/ StartBroadcast \/ BroadcastFetch \/ BroadcastEmit
           \/ \E x \in Symbol : UpdateMarketData(x)
    PROVE  MarketIInv'
<1>1. ASSUME NEW x \in Symbol, EmitTo(x)
      PROVE  /\ pricesSent' \in [Connection -> SUBSET Symbol]
             /\ \A c \in Connection : pricesSent[c] \subseteq pricesSent'[c]
  BY <1>1 DEF EmitTo, MarketIInv, MarketTypeOK
<1>2. ASSUME StartBroadcast PROVE MarketIInv'
  <2>1. MarketTypeOK'
    BY <1>2 DEF StartBroadcast, MarketIInv, MarketTypeOK
  <2>2. QED
    BY <1>2, <2>1, DataMoves DEF StartBroadcast
<1>3. ASSUME BroadcastFetch PROVE MarketIInv'
  <2>1. MarketTypeOK' /\ marketDataCache \subseteq marketDataCache'
    BY <1>3 DEF BroadcastFetch, MarketIInv, MarketTypeOK
  <2>2. QED
    BY <1>3, <2>1, DataMoves DEF BroadcastFetch
<1>4. ASSUME BroadcastEmit PROVE MarketIInv'
  <2>1. broadcastAt \in Symbol
    BY <1>4 DEF BroadcastEmit, MarketIInv, MarketTypeOK
  <2>2. /\ pricesSent' \in [Connection -> SUBSET Symbol]
        /\ \A c \in Connection : pricesSent[c] \subseteq pricesSent'[c]
    BY <1>1, <1>4, <2>1 DEF BroadcastEmit, MarketIInv, MarketTypeOK
  <2>3. MarketTypeOK'
    BY <1>4, <2>2 DEF BroadcastEmit, MarketIInv, MarketTypeOK
  <2>4. QED
    BY <1>4, <2>2, <2>3, DataMoves DEF BroadcastEmit
<1>5. ASSUME NEW x \in Symbol, UpdateMarketData(x) PROVE MarketIInv'
  <2>1. MarketTypeOK' /\ marketDataCache \subseteq marketDataCache'
    BY <1>1, <1>5 DEF UpdateMarketData, MarketIInv, MarketTypeOK
  <2>2. QED
    BY <1>1, <1>5, <2>1, DataMoves DEF UpdateMarketData
<1>6. QED
  BY <1>2, <1>3, <1>4, <1>5

-----------------------------------------------------------------------------
(* Steps of subscribe() and unsubscribe().                                 *)

\* What becomes of a symbol of the list: it is handled before the call yields
\* and its data is cached, it is the one whose data the call waits for, or the
\* call has yet to come to it.
LEMMA BeforeOrAfterYield ==
    ASSUME NEW list \in Seq(Symbol), NEW n \in 0..Len(list), BeforeYield(list, n)
    PROVE  LET now == {list[i] : i \in 1..n}
               todo == SubSeq(list, n, Len(list))
           IN  /\ now \subseteq Symbol
               /\ ~(now \subseteq marketDataCache) =>
                     /\ todo \in Seq(Symbol) /\ todo # <<>>
                     /\ \A x \in now : x \in marketDataCache \/ Head(todo) = x
               /\ \A x \in SetOf(list) \ now :
                     ~(now \subseteq marketDataCache) /\ x \in SetOf(Tail(todo))
<1> DEFINE now == {list[i] : i \in 1..n}
           todo == SubSeq(list, n, Len(list))
           m == Len(list)
<1>1. /\ m \in Nat /\ n \in Nat /\ n <= m
      /\ \A i \in 1..m : list[i] \in Symbol
      /\ \A i \in 1..(n - 1) : list[i] \in marketDataCache
      /\ n = m \/ (n > 0 /\ list[n] \notin marketDataCache)
  BY DEF BeforeYield
<1>2. n > 0 => /\ todo \in Seq(Symbol) /\ todo # <<>>
               /\ Len(todo) = m - n + 1
               /\ \A i \in 1..(m - n + 1) : todo[i] = list[n + i - 1]
  <2> SUFFICES ASSUME n > 0
               PROVE  /\ todo \in Seq(Symbol) /\ Len(todo) = m - n + 1 /\ todo # <<>>
                      /\ \A i \in 1..(m - n + 1) : todo[i] = list[n + i - 1]
    OBVIOUS
  <2>1. todo = [i \in 1..(m - n + 1) |-> list[n + i - 1]]
    BY <1>1
  <2> DEFINE k == m - n + 1
  <2>2. k \in Nat \ {0} /\ \A i \in 1..k : list[n + i - 1] \in Symbol
    <3>1. \A i \in 1..k : n + i - 1 \in 1..m
      BY <1>1
    <3>2. QED
      BY <1>1, <3>1
  <2>3. todo = [i \in 1..k |-> list[n + i - 1]]
    BY <2>1
  <2> HIDE DEF k, todo
  <2>4. todo \in Seq(Symbol) /\ Len(todo) = k /\ todo # <<>>
    BY <2>2, <2>3
  <2>5. QED
    BY <2>2, <2>3, <2>4 DEF k
<1> HIDE DEF todo, m
<1>3. now \subseteq Symbol
  BY <1>1
<1>4. ASSUME NEW x \in now PROVE x \in marketDataCache \/ (n > 0 /\ x = list[n])
  BY <1>1
<1>5. ASSUME ~(now \subseteq marketDataCache)
      PROVE  /\ n > 0
             /\ \A x \in now : x \in marketDataCache \/ Head(todo) = x
  <2>1. n > 0
    BY <1>1, <1>5
  <2>2. Head(todo) = list[n]
    BY <1>1, <1>2, <2>1
  <2>3. QED
    BY <1>4, <2>1, <2>2
<1>6. ASSUME NEW x \in SetOf(list) \ now
      PROVE  ~(now \subseteq marketDataCache) /\ x \in SetOf(Tail(todo))
  <2>1. PICK i \in 1..m : x = list[i]
    BY DEF SetOf, m
  <2>2. i > n /\ n > 0 /\ list[n] \notin marketDataCache /\ list[n] \in now
    BY <1>1, <1>6, <2>1
  <2> DEFINE rest == Tail(todo)
             k == i - n
  <2>3. /\ rest \in Seq(Symbol) /\ Len(rest) = m - n
        /\ \A j \in 1..(m - n) : rest[j] = todo[j + 1]
    BY <1>1, <1>2, <2>2
  <2>4. k \in 1..(m - n) /\ k + 1 \in 1..(m - n + 1) /\ n + (k + 1) - 1 = i
    <3>1. m \in Nat /\ n \in Nat /\ i \in Nat /\ i > n /\ i <= m
      BY <1>1, <2>1, <2>2
    <3>2. QED
      BY <3>1
  <2> HIDE DEF rest
  <2>5. rest[k] = x
    BY <1>2, <2>1, <2>2, <2>3, <2>4
  <2>6. DOMAIN rest = 1..(m - n)
    BY <2>3
  <2>7. QED
    BY <2>2, <2>4, <2>5, <2>6 DEF SetOf, rest
<1>7. QED
  BY <1>2, <1>3, <1>5, <1>6 DEF todo, m

\* A part of a call: the connection is subscribed to the symbols of now.
LEMMA SubscribeToType ==
    ASSUME MarketIInv, NEW h \in Handler, NEW c \in Connection,
           NEW now \in SUBSET Symbol, NEW extra \in SUBSET Symbol, NEW todo,
           SubscribeTo(h, c, now, extra, todo),
           ~(now \subseteq marketDataCache) => todo \in Seq(Symbol)
    PROVE  /\ subscribedSymbols' \in [Symbol -> SUBSET Connection]
           /\ marketRooms' \in [Symbol -> SUBSET Connection]
           /\ marketDataCache' \subseteq Symbol
           /\ subscribes' \in [Handler -> Subscribe]
           /\ pricesSent' \in [Connection -> SUBSET Symbol]
<1>1. NoSubscribe \in Subscribe /\ (todo \in Seq(Symbol) => [line |-> c, todo |-> todo] \in Subscribe)
  <2>1. <<>> \in Seq(Symbol)
    OBVIOUS
  <2>2. QED
    BY <2>1 DEF NoSubscribe, Subscribe
<1>2. subscribes' \in [Handler -> Subscribe]
  <2>1. /\ subscribes \in [Handler -> Subscribe]
        /\ \/ subscribes' = [subscribes EXCEPT ![h] = NoSubscribe]
           \/ /\ todo \in Seq(Symbol)
              /\ subscribes' = [subscribes EXCEPT ![h] = [line |-> c, todo |-> todo]]
    BY DEF SubscribeTo, MarketIInv, MarketTypeOK
  <2>2. QED
    BY <1>1, <2>1
<1>3. QED
  BY <1>2 DEF SubscribeTo, MarketIInv, MarketTypeOK

\* The connection joins, or the call goes on to, every symbol it handles, and
\* no open connection loses what it has: x is what the call waited for or had
\* yet to come to.
LEMMA SubscribeToServes ==
    ASSUME MarketIInv, NEW h \in Handler, NEW c \in Connection,
           NEW now \in SUBSET Symbol, NEW extra \in SUBSET Symbol, NEW todo,
           SubscribeTo(h, c, now, extra, todo),
           ~(now \subseteq marketDataCache) =>
               /\ todo \in Seq(Symbol) /\ todo # <<>>
               /\ \A x \in now : x \in marketDataCache \/ Head(todo) = x,
           subscribes[h].line \in {None, c},
           subscribes[h].line = c =>
               /\ Head(subscribes[h].todo) \in marketDataCache =>
                      Head(subscribes[h].todo) \in extra
               /\ \A x \in SetOf(Tail(subscribes[h].todo)) \ now :
                      ~(now \subseteq marketDataCache) /\ x \in SetOf(Tail(todo)),
           NEW d \in Connection, connections[d] = "open", NEW x \in Symbol
    PROVE  /\ d = c /\ x \in now => Joined(d, x)'
           /\ Joined(d, x) => Joined(d, x)'
           /\ InCall(d, x) => InCall(d, x)' \/ Joined(d, x)'
<1>1. /\ subscribedSymbols \in [Symbol -> SUBSET Connection]
      /\ marketRooms \in [Symbol -> SUBSET Connection]
      /\ subscribes \in [Handler -> Subscribe]
      /\ pricesSent \in [Connection -> SUBSET Symbol]
      /\ d # None /\ c # None
  BY MarketDataAssumption DEF MarketIInv, MarketTypeOK
<1>2. /\ x \in now /\ d = c => /\ d \in subscribedSymbols'[x]
                               /\ d \in marketRooms'[x]
                               /\ x \in marketDataCache => x \in pricesSent'[d]
      /\ d \in subscribedSymbols[x] => d \in subscribedSymbols'[x]
      /\ d \in marketRooms[x] => d \in marketRooms'[x]
      /\ x \in pricesSent[d] => x \in pricesSent'[d]
      /\ d = c /\ x \in extra => x \in pricesSent'[d]
      /\ \A g \in Handler \ {h} : subscribes'[g] = subscribes[g]
      /\ ~(now \subseteq marketDataCache) => subscribes'[h] = [line |-> c, todo |-> todo]
  BY <1>1 DEF SubscribeTo
<1>3. ASSUME d = c, x \in now PROVE Joined(d, x)'
  <2>1. CASE x \in marketDataCache
    BY <1>2, <1>3, <2>1 DEF Joined
  <2>2. CASE x \notin marketDataCache
    <3>1. subscribes'[h] = [line |-> c, todo |-> todo] /\ Head(todo) = x
      BY <1>2, <1>3, <2>2
    <3>2. subscribes'[h].line = d /\ Head(subscribes'[h].todo) = x
      BY <1>3, <3>1
    <3>3. QED
      BY <1>2, <1>3, <3>2 DEF Joined
  <2>3. QED
    BY <2>1, <2>2
<1>4. ASSUME Joined(d, x) PROVE Joined(d, x)'
  <2>1. CASE x \in pricesSent[d]
    BY <1>2, <1>4, <2>1 DEF Joined
  <2>2. CASE \E g \in Handler : subscribes[g].line = d /\ Head(subscribes[g].todo) = x
    <3>1. PICK g \in Handler : subscribes[g].line = d /\ Head(subscribes[g].todo) = x
      BY <2>2
    <3>2. CASE g = h
      <4>1. d = c /\ x \in marketDataCache
        BY <1>1, <1>4, <3>1, <3>2 DEF Joined, MarketIInv, CachedIfSubscribed
      <4>2. QED
        BY <1>2, <1>4, <3>1, <3>2, <4>1 DEF Joined
    <3>3. CASE g # h
      BY <1>2, <1>4, <3>1, <3>3 DEF Joined
    <3>4. QED
      BY <3>2, <3>3
  <2>3. QED
    BY <1>4, <2>1, <2>2 DEF Joined
<1>5. ASSUME InCall(d, x) PROVE InCall(d, x)' \/ Joined(d, x)'
  <2>1. PICK g \in Handler : subscribes[g].line = d /\ x \in SetOf(Tail(subscribes[g].todo))
    BY <1>5 DEF InCall
  <2>2. CASE g = h
    <3>1. d = c
      BY <1>1, <2>1, <2>2
    <3>2. CASE x \notin now
      <4>1. subscribes'[h] = [line |-> c, todo |-> todo] /\ x \in SetOf(Tail(todo))
        BY <1>2, <2>1, <2>2, <3>1, <3>2
      <4>2. subscribes'[h].line = d /\ subscribes'[h].todo = todo
        BY <3>1, <4>1
      <4>3. InCall(d, x)'
        BY <4>1, <4>2 DEF InCall, SetOf
      <4>4. QED
        BY <4>3
    <3>3. QED
      BY <1>3, <3>1, <3>2
  <2>3. CASE g # h
    BY <1>2, <2>1, <2>3 DEF InCall, SetOf
  <2>4. QED
    BY <2>2, <2>3
<1>6. QED
  BY <1>3, <1>4, <1>5

\* The rest of the invariant after a part of a call.
LEMMA SubscribeToKeeps ==
    ASSUME MarketIInv, NEW h \in Handler, NEW c \in Connection,
           NEW now \in SUBSET Symbol, NEW extra \in SUBSET Symbol, NEW todo,
           SubscribeTo(h, c, now, extra, todo),
           ~(now \subseteq marketDataCache) => todo # <<>>,
           connections[c] # None, UNCHANGED connections
    PROVE  CachedIfSubscribed' /\ Calls'
<1>1. CachedIfSubscribed'
  BY DEF SubscribeTo, MarketIInv, MarketTypeOK, CachedIfSubscribed
<1>2. c # None
  BY MarketDataAssumption
<1>3. /\ subscribes \in [Handler -> Subscribe]
      /\ \A g \in Handler \ {h} : subscribes'[g] = subscribes[g]
      /\ \/ subscribes'[h] = NoSubscribe
         \/ /\ todo # <<>>
            /\ subscribes'[h] = [line |-> c, todo |-> todo]
  BY DEF SubscribeTo, MarketIInv, MarketTypeOK
<1>4. ASSUME NEW g \in Handler
      PROVE  IF subscribes'[g].line = None
             THEN subscribes'[g] = NoSubscribe
             ELSE /\ connections[subscribes'[g].line] # None
                  /\ subscribes'[g].todo # <<>>
  <2>1. CASE g # h
    BY <1>3, <2>1 DEF MarketIInv, Calls
  <2>2. CASE subscribes'[h] = NoSubscribe
    BY <1>3, <2>1, <2>2 DEF NoSubscribe
  <2>3. CASE todo # <<>> /\ subscribes'[h] = [line |-> c, todo |-> todo]
    BY <1>2, <2>1, <2>3
  <2>4. QED
    BY <1>3, <2>1, <2>2, <2>3
<1>5. Calls'
  BY <1>4 DEF Calls, NoSubscribe
<1>6. QED
  BY <1>1, <1>5

\* An event of a page that has a connection is handled.
LEMMA SameLines ==
    ASSUME MarketIInv, NEW p \in Page, pages[p].line # None, UNCHANGED connections,
           pages'[p].line = pages[p].line,
           \A q \in Page \ {p} : pages'[q] = pages[q]
    PROVE  Lines'
<1>1. \A q \in Page : pages'[q].line = pages[q].line
  OBVIOUS
<1>2. connections[pages[p].line] = "open"
  BY DEF MarketIInv, Lines
<1>3. \A q \in Page :
          IF pages'[q].line = None
          THEN pages'[q].symbols = {} /\ pages'[q].events = <<>>
          ELSE connections'[pages'[q].line] = "open"
  BY <1>1, <1>2 DEF MarketIInv, Lines
<1>4. \A q, r \in Page : pages'[q].line = pages'[r].line => q = r \/ pages'[q].line = None
  BY <1>1 DEF MarketIInv, Lines
<1>5. QED
  BY <1>3, <1>4 DEF Lines

LEMMA ServeSubscribeIInv ==
    ASSUME MarketIInv, NEW p \in Page, NEW h \in Handler, ServeSubscribe(p, h)
    PROVE  MarketIInv'
<1>1. PICK events, c, list :
          events = pages[p].events /\ c = pages[p].line /\ list = Head(events).symbols
  OBVIOUS
<1>2. /\ events \in Seq(MarketEvent) /\ events # <<>>
      /\ Head(events) \in MarketEvent /\ Head(events).subscribe
      /\ Tail(events) \in Seq(MarketEvent)
      /\ subscribes[h] = NoSubscribe
  BY <1>1, PageType DEF ServeSubscribe
<1>3. /\ list \in Seq(Symbol)
      /\ c \in Connection /\ c # None /\ connections[c] = "open"
      /\ connections[c] # None
  BY <1>1, <1>2, PageType, MarketDataAssumption DEF MarketIInv, Lines, MarketEvent
<1>4. PICK n \in 0..Len(list) :
          /\ BeforeYield(list, n)
          /\ SubscribeTo(h, c, {list[i] : i \in 1..n}, {}, SubSeq(list, n, Len(list)))
  BY <1>1 DEF ServeSubscribe, SubscribeLoop
<1>5. PICK now, todo : now = {list[i] : i \in 1..n} /\ todo = SubSeq(list, n, Len(list))
  OBVIOUS
<1>6. /\ now \in SUBSET Symbol
      /\ ~(now \subseteq marketDataCache) =>
            /\ todo \in Seq(Symbol) /\ todo # <<>>
            /\ \A x \in now : x \in marketDataCache \/ Head(todo) = x
      /\ \A x \in SetOf(list) \ now :
            ~(now \subseteq marketDataCache) /\ x \in SetOf(Tail(todo))
  BY <1>3, <1>4, <1>5, BeforeOrAfterYield
<1>7. /\ SubscribeTo(h, c, now, {}, todo)
      /\ {} \in SUBSET Symbol
      /\ subscribes[h].line = None
  BY <1>2, <1>4, <1>5 DEF NoSubscribe
<1>8. /\ pages'[p] = [pages[p] EXCEPT !.events = Tail(events)]
      /\ pages' = [pages EXCEPT ![p] = pages'[p]]
      /\ \A q \in Page \ {p} : pages'[q] = pages[q]
      /\ UNCHANGED <<broadcasting, broadcastAt, connections>>
  BY <1>1 DEF ServeSubscribe, MarketIInv, MarketTypeOK
<1>9. /\ pages'[p] \in PageState /\ pages'[p].line = c
      /\ pages'[p].symbols = pages[p].symbols /\ pages'[p].events = Tail(events)
  BY <1>1, <1>2, <1>8, PageType DEF PageState
<1>10. MarketTypeOK'
  <2>1. pages' \in [Page -> PageState]
    BY <1>8, <1>9 DEF MarketIInv, MarketTypeOK
  <2>2. QED
    BY <1>3, <1>6, <1>7, <1>8, <2>1, SubscribeToType DEF MarketIInv, MarketTypeOK
<1>11. CachedIfSubscribed' /\ Calls'
  BY <1>3, <1>6, <1>7, <1>8, SubscribeToKeeps
<1>12. Lines'
  BY <1>1, <1>3, <1>8, <1>9, SameLines
<1>13. ASSUME NEW d \in Connection, connections[d] = "open", NEW x \in Symbol
       PROVE  /\ d = c /\ x \in now => Joined(d, x)'
              /\ Joined(d, x) => Joined(d, x)'
              /\ InCall(d, x) => InCall(d, x)' \/ Joined(d, x)'
  BY <1>3, <1>6, <1>7, <1>13, SubscribeToServes
<1>14. ASSUME NEW x \in SetOf(list) \ now PROVE InCall(c, x)'
  <2>1. ~(now \subseteq marketDataCache) /\ x \in SetOf(Tail(todo))
    BY <1>6
  <2>2. subscribes'[h] = [line |-> c, todo |-> todo]
    BY <1>7, <2>1 DEF SubscribeTo, MarketIInv, MarketTypeOK
  <2>3. QED
    BY <2>1, <2>2 DEF InCall, SetOf
<1>15. ASSUME NEW q \in Page, NEW x \in pages'[q].symbols PROVE OnItsWay(q, x)'
  <2>1. x \in pages[q].symbols /\ x \in Symbol /\ OnItsWay(q, x)
    BY <1>8, <1>9, <1>15, PageType
  <2>2. pages'[q].line = pages[q].line
    BY <1>1, <1>8, <1>9
  <2>3. PICK d \in Connection : d = pages[q].line /\ connections[d] = "open"
    BY <2>1, PageType DEF MarketIInv, Lines
  <2>4. InCall(d, x) \/ Joined(d, x) => InCall(d, x)' \/ Joined(d, x)'
    BY <1>13, <2>1, <2>3
  <2>5. CASE q # p
    BY <1>8, <2>1, <2>2, <2>3, <2>4, <2>5 DEF OnItsWay
  <2>6. CASE q = p
    <3>1. /\ AskedLast(Tail(events), x)
          /\ Asked(events, x) =>
                \/ Asked(Tail(events), x)
                \/ x \in SetOf(list)
      BY <1>1, <1>2, <2>1, <2>6, AskedHandled DEF OnItsWay, Mentions
    <3>2. x \in SetOf(list) => InCall(c, x)' \/ Joined(c, x)'
      BY <1>3, <1>13, <1>14, <2>1
    <3>3. QED
      BY <1>1, <1>9, <2>1, <2>3, <2>4, <2>6, <3>1, <3>2 DEF OnItsWay
  <2>7. QED
    BY <2>5, <2>6
<1>16. QED
  BY <1>10, <1>11, <1>12, <1>15 DEF MarketIInv, ChosenOnWay

LEMMA ResumeSubscribeIInv ==
    ASSUME MarketIInv, NEW h \in Handler, ResumeSubscribe(h)
    PROVE  MarketIInv'
<1>1. PICK c, first, list, extra :
          /\ c = subscribes[h].line
          /\ first = Head(subscribes[h].todo)
          /\ list = Tail(subscribes[h].todo)
          /\ extra = {first} \cap marketDataCache
  OBVIOUS
<1>2. subscribes[h] \in Subscribe /\ subscribes[h] # NoSubscribe
  BY DEF ResumeSubscribe, MarketIInv, MarketTypeOK
<1>3. c \in Connection /\ connections[c] # None /\ c # None
  BY <1>1, <1>2 DEF MarketIInv, Calls, Subscribe
<1>4. list \in Seq(Symbol) /\ extra \in SUBSET Symbol
  <2>1. subscribes[h].todo # <<>> /\ subscribes[h].todo \in Seq(Symbol)
    BY <1>1, <1>2, <1>3 DEF MarketIInv, Calls, Subscribe
  <2>2. QED
    BY <1>1, <2>1
<1>5. PICK n \in 0..Len(list) :
          /\ BeforeYield(list, n)
          /\ SubscribeTo(h, c, {list[i] : i \in 1..n}, extra, SubSeq(list, n, Len(list)))
  BY <1>1 DEF ResumeSubscribe, SubscribeLoop
<1>6. PICK now, todo : now = {list[i] : i \in 1..n} /\ todo = SubSeq(list, n, Len(list))
  OBVIOUS
<1>7. /\ now \in SUBSET Symbol
      /\ ~(now \subseteq marketDataCache) =>
            /\ todo \in Seq(Symbol) /\ todo # <<>>
            /\ \A x \in now : x \in marketDataCache \/ Head(todo) = x
      /\ \A x \in SetOf(list) \ now :
            ~(now \subseteq marketDataCache) /\ x \in SetOf(Tail(todo))
  BY <1>4, <1>5, <1>6, BeforeOrAfterYield
<1>8. SubscribeTo(h, c, now, extra, todo)
  BY <1>5, <1>6
<1>9. UNCHANGED <<pages, broadcasting, broadcastAt, connections>>
  BY DEF ResumeSubscribe
<1>10. MarketTypeOK'
  BY <1>3, <1>4, <1>7, <1>8, <1>9, SubscribeToType DEF MarketIInv, MarketTypeOK
<1>11. CachedIfSubscribed' /\ Calls'
  BY <1>3, <1>4, <1>7, <1>8, <1>9, SubscribeToKeeps
<1>12. Lines'
  BY <1>9 DEF MarketIInv, Lines
<1>13. ASSUME NEW d \in Connection, connections[d] = "open", NEW x \in Symbol
       PROVE  /\ Joined(d, x) => Joined(d, x)'
              /\ InCall(d, x) => InCall(d, x)' \/ Joined(d, x)'
  <2>1. /\ subscribes[h].line \in {None, c}
        /\ first \in marketDataCache => first \in extra
    BY <1>1
  <2>2. QED
    BY <1>1, <1>3, <1>4, <1>7, <1>8, <1>13, <2>1, SubscribeToServes
<1>14. ASSUME NEW q \in Page, NEW x \in pages[q].symbols PROVE OnItsWay(q, x)'
  <2>1. x \in Symbol /\ OnItsWay(q, x)
    BY PageType
  <2>2. PICK d \in Connection : d = pages[q].line /\ connections[d] = "open"
    BY PageType DEF MarketIInv, Lines
  <2>3. InCall(d, x) \/ Joined(d, x) => InCall(d, x)' \/ Joined(d, x)'
    BY <1>13, <2>1, <2>2
  <2>4. QED
    BY <1>9, <2>1, <2>2, <2>3 DEF OnItsWay
<1>15. QED
  BY <1>9, <1>10, <1>11, <1>12, <1>14 DEF MarketIInv, ChosenOnWay

\* What a page has not dropped since it asked for it stays asked for.
LEMMA ServeUnsubscribeIInv ==
    ASSUME MarketIInv, NEW p \in Page, ServeUnsubscribe(p)
    PROVE  MarketIInv'
<1>1. PICK events, c, these :
          /\ events = pages[p].events
          /\ c = pages[p].line
          /\ these = SetOf(Head(events).symbols)
  OBVIOUS
<1>2. /\ events \in Seq(MarketEvent) /\ events # <<>>
      /\ ~Head(events).subscribe
      /\ Tail(events) \in Seq(MarketEvent)
  BY <1>1, PageType DEF ServeUnsubscribe
<1>3. c \in Connection /\ c # None
  BY <1>1, <1>2, PageType DEF MarketIInv, Lines
<1>4. /\ \A x \in Symbol :
            /\ subscribedSymbols'[x] = IF x \in these THEN subscribedSymbols[x] \ {c}
                                                      ELSE subscribedSymbols[x]
            /\ marketRooms'[x] = IF x \in these THEN marketRooms[x] \ {c}
                                                ELSE marketRooms[x]
      /\ marketDataCache' = marketDataCache \
            {x \in these : subscribedSymbols[x] # {} /\ subscribedSymbols'[x] = {}}
      /\ pricesSent'[c] = pricesSent[c] \ these
      /\ \A d \in Connection \ {c} : pricesSent'[d] = pricesSent[d]
      /\ UNCHANGED <<subscribes, broadcasting, broadcastAt, connections>>
  BY <1>1, <1>3 DEF ServeUnsubscribe, Leave, MarketIInv, MarketTypeOK
<1>5. /\ pages'[p] = [pages[p] EXCEPT !.events = Tail(events)]
      /\ pages' = [pages EXCEPT ![p] = pages'[p]]
      /\ \A q \in Page \ {p} : pages'[q] = pages[q]
  BY <1>1 DEF ServeUnsubscribe, MarketIInv, MarketTypeOK
<1>6. /\ pages'[p] \in PageState /\ pages'[p].line = c
      /\ pages'[p].symbols = pages[p].symbols /\ pages'[p].events = Tail(events)
  BY <1>1, <1>2, <1>5, PageType DEF PageState
<1>7. MarketTypeOK'
  <2>1. pages' \in [Page -> PageState]
    BY <1>5, <1>6 DEF MarketIInv, MarketTypeOK
  <2>2. QED
    BY <1>4, <2>1 DEF ServeUnsubscribe, Leave, MarketIInv, MarketTypeOK
<1>8. CachedIfSubscribed'
  BY <1>4 DEF MarketIInv, CachedIfSubscribed
<1>9. Calls' /\ Lines'
  <2>1. Calls'
    BY <1>4 DEF MarketIInv, Calls
  <2>2. QED
    BY <1>1, <1>3, <1>4, <1>5, <1>6, <2>1, SameLines
<1>10. ASSUME NEW d \in Connection, NEW x \in Symbol, d # c \/ x \notin these
       PROVE  /\ d \in marketRooms[x] => d \in marketRooms'[x]
              /\ d \in subscribedSymbols[x] => d \in subscribedSymbols'[x]
              /\ x \in pricesSent[d] => x \in pricesSent'[d]
  BY <1>4, <1>10
<1>11. ASSUME NEW q \in Page, NEW x \in pages'[q].symbols PROVE OnItsWay(q, x)'
  <2>1. x \in pages[q].symbols /\ x \in Symbol /\ OnItsWay(q, x)
    BY <1>5, <1>6, <1>11, PageType
  <2>2. pages[q].line \in Connection /\ pages[q].line # None
    BY <2>1, PageType DEF MarketIInv, Lines
  <2>3. CASE q # p
    <3>1. pages[q].line # c
      BY <1>1, <2>2, <2>3 DEF MarketIInv, Lines
    <3>2. QED
      BY <1>4, <1>5, <1>10, <2>1, <2>2, <2>3, <3>1, StillOnItsWay
  <2>4. CASE q = p
    <3>1. /\ AskedLast(Tail(events), x)
          /\ Asked(events, x) => Asked(Tail(events), x)
          /\ x \in these => Asked(Tail(events), x)
      BY <1>1, <1>2, <2>1, <2>4, AskedHandled DEF OnItsWay, Mentions
    <3>2. CASE x \in these
      BY <1>6, <2>4, <3>1, <3>2 DEF OnItsWay
    <3>3. CASE x \notin these
      BY <1>1, <1>3, <1>4, <1>6, <1>10, <2>1, <2>4, <3>1, <3>3 DEF OnItsWay, InCall, Joined
    <3>4. QED
      BY <3>2, <3>3
  <2>5. QED
    BY <2>3, <2>4
<1>12. QED
  BY <1>7, <1>8, <1>9, <1>11 DEF MarketIInv, ChosenOnWay

-----------------------------------------------------------------------------
(* The theorems.                                                           *)

LEMMA MarketNextIInv == MarketIInv /\ [MarketNext]_marketVars => MarketIInv'
<1> SUFFICES ASSUME MarketIInv, [MarketNext]_marketVars PROVE MarketIInv'
  OBVIOUS
<1>1. ASSUME NEW p \in Page, PageStep(p) PROVE MarketIInv'
  BY <1>1, ChooseIInv, UnchooseIInv, ClearMarketDataIInv, OpenLineIInv,
     CloseLineIInv DEF PageStep
<1>2. CASE UNCHANGED marketVars
  BY <1>2 DEF marketVars, MarketIInv, MarketTypeOK, CachedIfSubscribed, Lines,
     Calls, ChosenOnWay, OnItsWay, InCall, Joined
<1>3. QED
  BY <1>1, <1>2, ServeUnsubscribeIInv, ServeSubscribeIInv, ResumeSubscribeIInv,
     BroadcastsIInv DEF MarketNext

LEMMA MarketInvariance == MarketSpec => []MarketIInv
  BY MarketInitIInv, MarketNextIInv, PTL DEF MarketSpec

\* The rooms, the subscribers, the calls in progress and the pages keep their
\* types (market-data.service.ts, the client's market slice).
THEOREM MarketTypeCorrect == MarketSpec => []MarketTypeOK
  BY MarketInvariance, PTL DEF MarketIInv

\* What a page chose on a connection is served once its events are handled and
\* its calls are done, for any number of pages, connections, symbols and calls
\* that interleave at their awaits (market-data.service.ts, subscribe,
\* unsubscribe, broadcastMarketData).
THEOREM ChosenServed == MarketSpec => []ChosenIsServed
<1>1. ASSUME MarketIInv PROVE ChosenIsServed
  <2> SUFFICES ASSUME NEW p \in Page, pages[p].line # None, pages[p].events = <<>>,
                      \A h \in Handler : subscribes[h].line # pages[p].line,
                      NEW x \in pages[p].symbols
               PROVE  /\ pages[p].line \in marketRooms[x] \cap subscribedSymbols[x]
                      /\ x \in pricesSent[pages[p].line]
    BY DEF ChosenIsServed
  <2>1. ~Asked(pages[p].events, x) /\ ~InCall(pages[p].line, x)
    BY DEF Asked, InCall
  <2>2. Joined(pages[p].line, x)
    BY <1>1, <2>1 DEF MarketIInv, ChosenOnWay, OnItsWay
  <2>3. QED
    BY <2>2 DEF Joined
<1>2. QED
  BY <1>1, MarketInvariance, PTL
=============================================================================
