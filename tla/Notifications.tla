--------------------------- MODULE Notifications ----------------------------
(***************************************************************************)
(* The notification service (NotificationsService).  A notification is     *)
(* sent to a user over the channels that the user's preferences allow: per *)
(* channel a document is saved as Pending, the message is sent, and the    *)
(* outcome is saved.  The user reads and deletes notifications and changes *)
(* preferences at any time in between.                                     *)
(*                                                                         *)
(* An action is the code up to and including its next call of the database *)
(* or the mail server.  Of the channels only Email calls one; SMS and Push *)
(* are placeholders that log, and InApp is the stored document itself.     *)
(***************************************************************************)
EXTENDS Service, Counting

CONSTANTS
    Subscriber,      \* the users who are notified
    NoteId,          \* the ids of the notifications collection
    NoteType,        \* the types of notification that are sent
    QuietType,       \* those of them that are off for SMS by default
    MutedChoice,     \* the sets of channels a user may mute
    TypeChoice       \* the sets of types a user may allow on a channel

\* The order in which determineChannels lists the channels.
Channels == <<"Email", "SMS", "Push", "InApp">>

Channel == {"Email", "SMS", "Push", "InApp"}

NoteStatus == {"Pending", "Sent", "Failed", "Read"}

NoteDoc == [user : Subscriber, channel : Channel, status : NoteStatus,
            sentAt : BOOLEAN, readAt : BOOLEAN, retryCount : Nat]

PreferenceDoc == [allowed : [Channel -> SUBSET NoteType],
                  muted : SUBSET Channel]

\* What createDefaultPreferences and an upsert store: the schema's defaults.
Default ==
    [allowed |-> [c \in Channel |->
                    IF c = "SMS" THEN NoteType \ QuietType ELSE NoteType],
     muted |-> {}]

ASSUME NotificationsAssumption ==
    /\ MutedChoice \subseteq SUBSET Channel
    /\ TypeChoice \subseteq SUBSET NoteType
    /\ {None, Deleted} \cap (NoteDoc \cup PreferenceDoc \cup NoteId) = {}

VARIABLES
    notes,        \* the notifications collection
    preferences,  \* the preferences collection, by its unique user
    senders,      \* where each sendNotification is and what it has read
    delivered,    \* history: the notifications the channel has taken
    abandoned,    \* history: those whose sendNotification threw or died
    chosen        \* history: the preferences each user chose last

notificationsVars ==
    <<notes, preferences, senders, delivered, abandoned, chosen>>

SenderStage == {"idle", "default", "create", "mail", "sent", "failed"}

Sender ==
    [at : SenderStage,                   \* the call it makes next
     user : Subscriber \cup {None},
     type : NoteType \cup {None},        \* None: getPreferences on its own
     todo : Seq(Channel),                \* the channels it has yet to use
     note : NoteId \cup {None}]          \* the notification it is sending

NoSender == [at |-> "idle", user |-> None, type |-> None, todo |-> <<>>,
             note |-> None]

NotificationsTypeOK ==
    /\ notes \in [NoteId -> NoteDoc \cup {None, Deleted}]
    /\ preferences \in [Subscriber -> PreferenceDoc \cup {None}]
    /\ senders \in [Handler -> Sender]
    /\ delivered \subseteq NoteId
    /\ abandoned \subseteq NoteId
    /\ chosen \in [Subscriber -> PreferenceDoc \cup {None}]

NotificationsInit ==
    /\ notes = [n \in NoteId |-> None]
    /\ preferences = [u \in Subscriber |-> None]
    /\ senders = [h \in Handler |-> NoSender]
    /\ delivered = {}
    /\ abandoned = {}
    /\ chosen = [u \in Subscriber |-> None]

Note == StoredIn(notes)

SenderGoes(h, state) == senders' = [senders EXCEPT ![h] = state]

-----------------------------------------------------------------------------
(* Sending                                                                 *)

\* determineChannels.
ChannelsFor(type, preference) ==
    PickFrom(Channels, {i \in DOMAIN Channels :
        /\ type \in preference.allowed[Channels[i]]
        /\ Channels[i] \notin preference.muted})

\* The loop over the channels: the next notification, or the end.
WithChannels(sender, todo) ==
    IF todo = <<>> THEN NoSender
    ELSE [sender EXCEPT !.at = "create", !.todo = todo, !.note = None]

\* sendNotification starts: getPreferences looks for the user's preferences.
SendNotification(h, u, type) ==
    LET sender == [NoSender EXCEPT !.user = u, !.type = type]
    IN  /\ senders[h].at = "idle"
        /\ SenderGoes(h,
              IF preferences[u] = None
              THEN [sender EXCEPT !.at = "default"]
              ELSE WithChannels(sender, ChannelsFor(type, preferences[u])))
        /\ UNCHANGED <<notes, preferences, delivered, abandoned, chosen>>

\* getPreferences on its own, of a user who has none yet.
GetPreferences(h, u) ==
    /\ senders[h].at = "idle"
    /\ preferences[u] = None
    /\ SenderGoes(h, [NoSender EXCEPT !.at = "default", !.user = u])
    /\ UNCHANGED <<notes, preferences, delivered, abandoned, chosen>>

\* Slip: the defaults are written whatever is there.
CreateDefaultsOver(h) ==
    /\ senders[h].at = "default"
    /\ preferences' = [preferences EXCEPT ![senders[h].user] = Default]
    /\ SenderGoes(h, NoSender)
    /\ UNCHANGED <<notes, delivered, abandoned, chosen>>

\* createDefaultPreferences: where preferences were stored since the look, the
\* unique index refuses them and the request throws.
CreateDefaultPreferences(h) ==
    LET u == senders[h].user
        type == senders[h].type
    IN  /\ senders[h].at = "default"
        /\ IF preferences[u] # None
           THEN /\ SenderGoes(h, NoSender)
                /\ UNCHANGED preferences
           ELSE /\ preferences' = [preferences EXCEPT ![u] = Default]
                /\ SenderGoes(h,
                      IF type = None THEN NoSender
                      ELSE WithChannels(senders[h], ChannelsFor(type, Default)))
        /\ UNCHANGED <<notes, delivered, abandoned, chosen>>

\* createNotification saves the notification as Pending.
CreateNotification(h) ==
    LET channel == Head(senders[h].todo)
    IN  /\ senders[h].at = "create"
        /\ \E n \in UnusedIn(notes) :
              /\ notes' = [notes EXCEPT ![n] =
                    [user |-> senders[h].user, channel |-> channel,
                     status |-> "Pending", sentAt |-> FALSE, readAt |-> FALSE,
                     retryCount |-> 0]]
              /\ SenderGoes(h, [senders[h] EXCEPT
                    !.at = IF channel = "Email" THEN "mail" ELSE "sent",
                    !.note = n])
        /\ UNCHANGED <<preferences, delivered, abandoned, chosen>>

\* Slip: the mail is handed over without waiting for the answer.
SendEmailUnawaited(h) ==
    /\ senders[h].at = "mail"
    /\ SenderGoes(h, [senders[h] EXCEPT !.at = "sent"])
    /\ \/ delivered' = delivered \cup {senders[h].note}
       \/ UNCHANGED delivered
    /\ UNCHANGED <<notes, preferences, abandoned, chosen>>

\* sendEmail: the mail server takes the mail or rejects it.
SendEmail(h) ==
    /\ senders[h].at = "mail"
    /\ \/ /\ delivered' = delivered \cup {senders[h].note}
          /\ SenderGoes(h, [senders[h] EXCEPT !.at = "sent"])
       \/ /\ UNCHANGED delivered
          /\ SenderGoes(h, [senders[h] EXCEPT !.at = "failed"])
    /\ UNCHANGED <<notes, preferences, abandoned, chosen>>

\* What has been taken when an outcome is saved: the placeholders and InApp
\* return at once.
Taken(h) ==
    IF Head(senders[h].todo) = "Email" THEN delivered
    ELSE delivered \cup {senders[h].note}

\* Slip: the document is written back whole, as it was when it was created.
SaveSentWhole(h) ==
    LET n == senders[h].note
    IN  /\ senders[h].at = "sent"
        /\ n \in Note
        /\ notes' = [notes EXCEPT ![n] = [@ EXCEPT
                        !.status = "Sent", !.sentAt = TRUE, !.readAt = FALSE]]
        /\ SenderGoes(h, WithChannels(senders[h], Tail(senders[h].todo)))
        /\ delivered' = Taken(h)
        /\ UNCHANGED <<preferences, abandoned, chosen>>

\* processNotification saves the success.  A save that rejects, as it does
\* when the user has deleted the notification, is caught like a failed send.
SaveSent(h) ==
    LET n == senders[h].note
    IN  /\ senders[h].at = "sent"
        /\ \/ /\ n \in Note
              /\ notes' = [notes EXCEPT ![n].status = "Sent", ![n].sentAt = TRUE]
              /\ SenderGoes(h, WithChannels(senders[h], Tail(senders[h].todo)))
           \/ /\ SenderGoes(h, [senders[h] EXCEPT !.at = "failed"])
              /\ UNCHANGED notes
        /\ delivered' = Taken(h)
        /\ UNCHANGED <<preferences, abandoned, chosen>>

\* Slip: the failure is logged only.
SaveFailedLogged(h) ==
    /\ senders[h].at = "failed"
    /\ SenderGoes(h, WithChannels(senders[h], Tail(senders[h].todo)))
    /\ UNCHANGED <<notes, preferences, delivered, abandoned, chosen>>

\* ... or the failure, with the fields a rejected save has left changed.
SaveFailed(h) ==
    LET n == senders[h].note
    IN  /\ senders[h].at = "failed"
        /\ n \in Note
        /\ notes' = [notes EXCEPT ![n] = [notes[n] EXCEPT
                        !.status = "Failed", !.retryCount = 1,
                        !.sentAt = @ \/ n \in delivered]]
        /\ SenderGoes(h, WithChannels(senders[h], Tail(senders[h].todo)))
        /\ UNCHANGED <<preferences, delivered, abandoned, chosen>>

\* A database call that is not caught rejects, or the process dies: the
\* channels that are left are not used.
AbandonSending(h) ==
    /\ senders[h].at # "idle"
    /\ SenderGoes(h, NoSender)
    /\ abandoned' = abandoned \cup ({senders[h].note} \ {None})
    /\ UNCHANGED <<notes, preferences, delivered, chosen>>

-----------------------------------------------------------------------------
(* The user                                                                *)

\* markAsRead.
MarkAsRead(n) ==
    /\ n \in Note
    /\ notes' = [notes EXCEPT ![n].status = "Read", ![n].readAt = TRUE]
    /\ UNCHANGED <<preferences, senders, delivered, abandoned, chosen>>

\* markAllAsRead.
MarkAllAsRead(u) ==
    /\ notes' = [n \in NoteId |->
                    IF n \in Note /\ notes[n].user = u /\ ~notes[n].readAt
                    THEN [notes[n] EXCEPT !.status = "Read", !.readAt = TRUE]
                    ELSE notes[n]]
    /\ UNCHANGED <<preferences, senders, delivered, abandoned, chosen>>

\* deleteNotification.
DeleteNotification(n) ==
    /\ n \in Note
    /\ notes' = [notes EXCEPT ![n] = Deleted]
    /\ UNCHANGED <<preferences, senders, delivered, abandoned, chosen>>

\* updatePreferences stores the fields it is given; with no preferences yet,
\* the rest are the defaults.
UpdatePreferences(u) ==
    LET before == IF preferences[u] = None THEN Default ELSE preferences[u]
    IN  /\ \/ \E muted \in MutedChoice :
                preferences' = [preferences EXCEPT
                                  ![u] = [before EXCEPT !.muted = muted]]
           \/ \E c \in Channel, types \in TypeChoice :
                preferences' = [preferences EXCEPT
                                  ![u] = [before EXCEPT !.allowed[c] = types]]
        /\ chosen' = [chosen EXCEPT ![u] = preferences'[u]]
        /\ UNCHANGED <<notes, senders, delivered, abandoned>>

-----------------------------------------------------------------------------
SenderStep(h) ==
    \/ \E u \in Subscriber, type \in NoteType : SendNotification(h, u, type)
    \/ \E u \in Subscriber : GetPreferences(h, u)
    \/ CreateDefaultPreferences(h)
    \/ CreateNotification(h)
    \/ SendEmail(h)
    \/ SaveSent(h)
    \/ SaveFailed(h)
    \/ AbandonSending(h)

NotificationsNext ==
    \/ \E h \in Handler : SenderStep(h)
    \/ \E n \in NoteId : MarkAsRead(n) \/ DeleteNotification(n)
    \/ \E u \in Subscriber : MarkAllAsRead(u) \/ UpdatePreferences(u)

NotificationsSpec ==
    NotificationsInit /\ [][NotificationsNext]_notificationsVars

-----------------------------------------------------------------------------
(* Properties                                                              *)

\* A notification that has a time of sending was taken by its channel, also
\* when the outcome was saved after a failure or after the user read it
\* (processNotification).
SentWasDelivered == \A n \in Note : notes[n].sentAt => n \in delivered

\* A notification is left Pending only by a request that is still sending it
\* or that ended with an error: one that reports success has recorded how
\* each of its notifications fared (createNotification, processNotification).
PendingIsInHand ==
    \A n \in Note :
        notes[n].status = "Pending" =>
            n \in abandoned \cup {senders[h].note : h \in Handler}

\* A notification once read is never counted as unread again, although its
\* sender saves the document it created before (getUnreadCount counts the
\* notifications without readAt).
ReadMarkKept ==
    [][\A n \in Note :
          notes[n].readAt => notes'[n] = Deleted \/ notes'[n].readAt]_notificationsVars

\* What a user chose is never replaced by the defaults, which a request that
\* found no preferences creates later (getPreferences).
ChosenPreferencesKept ==
    \A u \in Subscriber : chosen[u] # None => preferences[u] = chosen[u]
=============================================================================
