------------------------------ MODULE Digests -------------------------------
(***************************************************************************)
(* The daily digest of a member: the cron jobs of the scheduler with their   *)
(* retry, the catch-up at start-up, the relay that queues digests for other  *)
(* platforms, and the commands that move, switch off or end a digest.        *)
(* Several of them may be composing (awaiting a translation) or sending a    *)
(* digest of one member at the same time; all they share is the database.    *)
(*                                                                         *)
(* The environment's connection is enabled.  There is one time zone; a new    *)
(* zone is a new hour.  A ban is a member that is not active.  Whether items  *)
(* are due is open at each attempt.  Other members ahead of one in the        *)
(* catch-up's or the relay's line are the delay until its turn.  An attempt,  *)
(* its retry included, does not outlast the day it began on.                  *)
(***************************************************************************)
EXTENDS Naturals, FiniteSets

CONSTANTS Eaters,      \* rows of table user
          Renumbered,  \* those whose id is not their Telegram id
          LastHour, LastDate,   \* bounds: hours of a day, days
          Never

DayHours == 0..LastHour
Dates == 1..LastDate
Senders == {"cron", "catchup", "relay"}
Sources == {"legacy", "other"}
Attempt == [at : {"composing", "sent", "waiting"}, try : 1..2]

ASSUME DigestAssumption ==
  /\ Renumbered \subseteq Eaters /\ LastHour \in Nat /\ LastDate \in Nat \ {0}
  /\ Never \notin DayHours \cup Dates \cup Attempt

VARIABLES clock,     \* [date, hour]
          eater,     \* [Eaters -> row of table user, with its destinations]
          job,       \* [Eaters -> hour of its cron job, or Never]
          ringing,   \* members whose job is due this hour and has not run
          line,      \* [{"catchup", "relay"} -> members still to be looked at]
          sending,   \* [Eaters -> [Senders -> an attempt, or Never]]
          verified,  \* the account of the environment's bot was checked
          digests,   \* [Eaters -> digests that went out today, 2 for more]
          digestRun, \* members with a row of table digestrun for today
          silent,    \* members to whom there was nothing to say today
          excuse     \* members to whom something happened today that may repeat it,
                     \* other than two destinations that are on

digestVars == <<clock, eater, job, ringing, line, sending, verified, digests,
                digestRun, silent, excuse>>
scheduling == <<clock, job, ringing>>
history == <<digests, silent, excuse>>

Hour == DayHours \cup {Never}
LastDates == Dates \cup {Never}

DigestTypeOK ==
  /\ clock \in [date : Dates, hour : DayHours]
  /\ eater \in [Eaters -> [active : BOOLEAN, chat : BOOLEAN, hour : DayHours,
                           linked : BOOLEAN, last : LastDates,
                           to : [Sources -> {"none", "off", "on"}]]]
  /\ job \in [Eaters -> Hour] /\ ringing \subseteq Eaters
  /\ line \in [catchup : SUBSET (Eaters \X LastDates \X DayHours),
              relay : SUBSET Eaters]
  /\ sending \in [Eaters -> [Senders -> Attempt \cup {Never}]]
  /\ verified \in BOOLEAN
  /\ digests \in [Eaters -> 0..2]
  /\ digestRun \cup silent \cup excuse \subseteq Eaters

NotSending == [u \in Eaters |-> [s \in Senders |-> Never]]

DigestInit ==
  /\ clock = [date |-> 1, hour |-> 0]
  /\ \E chat \in [Eaters -> BOOLEAN] :
       /\ eater = [u \in Eaters |->
            [active |-> TRUE, chat |-> chat[u], linked |-> ~chat[u],
             hour |-> LastHour, last |-> Never,
             to |-> [legacy |-> "none",
                     other |-> IF chat[u] THEN "none" ELSE "off"]]]
       /\ job = [u \in Eaters |-> IF chat[u] THEN LastHour ELSE Never]
  /\ ringing = {} /\ line = [catchup |-> {}, relay |-> {}] /\ sending = NotSending
  /\ verified = TRUE /\ digestRun = {} /\ silent = {}
  /\ excuse = {}
  /\ digests = [u \in Eaters |-> 0]

Today == clock.date
Excuse(u, why) == excuse' = IF why THEN excuse \cup {u} ELSE excuse
NoAttempt(u, s) == sending[u][s] = Never
Busy(s) == \E u \in Eaters : ~NoAttempt(u, s)
At(u, s, at) == ~NoAttempt(u, s) /\ sending[u][s].at = at

\* Reminders go to the environment's bot and to another platform as well.
Doubled(u) == \A p \in Sources : eater[u].to[p] = "on"

-----------------------------------------------------------------------------
(* Time and the scheduler.                                                  *)

\* Jobs run within their hour, unless the process is down or late (a misfire).
Rings == ringing' = {u \in Eaters : job[u] = clock'.hour}

NextHour ==
  /\ ringing = {} /\ clock.hour < LastHour
  /\ clock' = [clock EXCEPT !.hour = @ + 1]
  /\ Rings
  /\ UNCHANGED <<eater, job, line, sending, verified, digestRun, history>>

NextDate ==
  /\ ringing = {} /\ clock.hour = LastHour /\ clock.date < LastDate
  /\ sending = NotSending
  /\ clock' = [date |-> clock.date + 1, hour |-> 0]
  /\ Rings
  /\ digests' = [u \in Eaters |-> 0]
  /\ digestRun' = {} /\ silent' = {}
  /\ excuse' = {}
  /\ UNCHANGED <<eater, job, line, sending, verified>>

\* Who may get a digest from the environment's bot.
MayReceive(u) == /\ eater[u].active /\ eater[u].chat
                 /\ \/ eater[u].to["legacy"] = "on"
                    \/ \A p \in Sources : eater[u].to[p] = "none"

\* One attempt of send_digest_once, up to the translation it awaits.
Attempts(u, s, try) ==
  IF ~MayReceive(u)
  THEN /\ sending' = [sending EXCEPT ![u][s] = Never]
       /\ UNCHANGED <<eater, silent>>
  ELSE \/ /\ sending' = [sending EXCEPT
               ![u][s] = [at |-> "composing", try |-> try]]
          /\ UNCHANGED <<eater, silent>>
       \/ /\ sending' = [sending EXCEPT ![u][s] = Never]      \* nothing is due
          /\ eater' = [eater EXCEPT ![u].last = Today]
          /\ silent' = silent \cup {u}

\* The cron job.
JobRuns(u) ==
  /\ u \in ringing
  /\ ringing' = ringing \ {u}
  /\ IF verified THEN Attempts(u, "cron", 1)
     ELSE UNCHANGED <<eater, sending, silent>>
  /\ Excuse(u, ~NoAttempt(u, "catchup"))
  /\ UNCHANGED <<clock, job, line, verified, digests, digestRun>>

JobMisfires(u) ==
  /\ u \in ringing
  /\ ringing' = ringing \ {u}
  /\ UNCHANGED <<clock, eater, job, line, sending, verified, digestRun, history>>

GoesOut(u) == digests' = [digests EXCEPT ![u] = IF @ = 2 THEN 2 ELSE @ + 1]

\* Telegram takes the message.
Send(u, s) ==
  /\ s # "relay" /\ At(u, s, "composing")
  /\ GoesOut(u)
  /\ sending' = [sending EXCEPT ![u][s].at = "sent"]
  /\ UNCHANGED <<scheduling, eater, line, verified, digestRun, silent, excuse>>

\* As if the date were set and not committed.
DateUnsaved(u, s) ==
  /\ At(u, s, "sent")
  /\ sending' = [sending EXCEPT ![u][s] = Never]
  /\ UNCHANGED <<scheduling, eater, line, verified, digestRun, history>>

\* Its answer arrives and the date is committed.
DateRecorded(u, s) ==
  /\ At(u, s, "sent")
  /\ eater' = [eater EXCEPT ![u].last = Today]
  /\ sending' = [sending EXCEPT ![u][s] = Never]
  /\ UNCHANGED <<scheduling, line, verified, digestRun, history>>

\* The translation, the call or the commit raises; after the second time the
\* operator is alerted and the day is given up.
SendFails(u, s) ==
  /\ s # "relay"
  /\ At(u, s, "composing") \/ At(u, s, "sent")
  /\ Excuse(u, At(u, s, "sent"))
  /\ sending' = [sending EXCEPT ![u][s] =
                   IF @.try = 1 THEN [@ EXCEPT !.at = "waiting"] ELSE Never]
  /\ UNCHANGED <<scheduling, eater, line, verified, digestRun, digests, silent>>

Retry(u, s) ==
  /\ At(u, s, "waiting")
  /\ Attempts(u, s, 2)
  /\ UNCHANGED <<scheduling, line, verified, digests, digestRun, excuse>>

\* schedule_user_digest, given the user row as it was committed.
JobOf(row, before) == IF row.active /\ row.chat THEN row.hour ELSE before

-----------------------------------------------------------------------------
(* Start-up: import_legacy, the jobs, and the list the catch-up works on.    *)

\* A member without a destination of the environment's bot is given one.
Imported(u) ==
  IF eater[u].chat /\ eater[u].to["legacy"] = "none"
  THEN [eater[u] EXCEPT !.to["legacy"] = IF eater[u].active THEN "on" ELSE "off"]
  ELSE eater[u]

\* The process dies and starts; what was being composed or sent is lost.
Restart ==
  /\ eater' = [u \in Eaters |-> Imported(u)]
  /\ job' = [u \in Eaters |-> JobOf(eater[u], Never)]
  /\ ringing' = {} /\ sending' = NotSending
  /\ line' = [relay |-> {},
              catchup |-> {<<u, eater[u].last, eater[u].hour>> : u \in Eaters}]
  /\ verified' \in BOOLEAN
  /\ excuse' = excuse \cup {u \in Eaters : \E s \in Senders : At(u, s, "sent")}
  /\ UNCHANGED <<clock, digests, digestRun, silent>>

\* The polling loop checks the bot's account before each start.
Verify ==
  /\ verified' \in BOOLEAN
  /\ UNCHANGED <<scheduling, eater, line, sending, digestRun, history>>

\* The member's turn in the catch-up.  The date of the last digest and the hour
\* are those of the rows read at start-up; what changed since, the job of the
\* same hour, or one that ran meanwhile, is not seen.
CatchUp(u, seen, hour) ==
  /\ <<u, seen, hour>> \in line.catchup /\ ~Busy("catchup")
  /\ line' = [line EXCEPT !.catchup = @ \ {<<u, seen, hour>>}]
  /\ IF clock.hour >= hour /\ seen # Today /\ verified
     THEN /\ Attempts(u, "catchup", 1)
          /\ Excuse(u, \/ clock.hour = hour \/ hour # eater[u].hour
                       \/ seen # eater[u].last \/ ~NoAttempt(u, "cron"))
     ELSE UNCHANGED <<eater, sending, silent, excuse>>
  /\ UNCHANGED <<scheduling, verified, digests, digestRun>>

-----------------------------------------------------------------------------
(* The relay of the messaging runtime, every minute.                        *)

PrepareDigests ==
  /\ line.relay = {} /\ ~Busy("relay")
  /\ line' = [line EXCEPT !.relay = {u \in Eaters : eater[u].to["other"] = "on"}]
  /\ line' # line
  /\ UNCHANGED <<scheduling, eater, sending, verified, digestRun, history>>

RelayDue(u) == /\ eater[u].active /\ clock.hour >= eater[u].hour
               /\ u \notin digestRun /\ eater[u].last # Today

\* The next destination, though it may be switched off since the list was read:
\* not due, nothing to say, or composed.
RelayTurn(u) ==
  /\ u \in line.relay /\ ~Busy("relay")
  /\ line' = [line EXCEPT !.relay = @ \ {u}]
  /\ \/ /\ ~RelayDue(u)
        /\ UNCHANGED <<eater, sending, digestRun, silent>>
     \/ /\ RelayDue(u)
        /\ eater' = [eater EXCEPT ![u].last = Today]
        /\ digestRun' = digestRun \cup {u}
        /\ silent' = silent \cup {u}
        /\ UNCHANGED sending
     \/ /\ RelayDue(u)
        /\ sending' = [sending EXCEPT
             ![u]["relay"] = [at |-> "composing", try |-> 1]]
        /\ UNCHANGED <<eater, digestRun, silent>>
  /\ Excuse(u, eater[u].to["other"] # "on")
  /\ UNCHANGED <<scheduling, verified, digests>>

\* The digest is queued with the run and the date, in one commit.
RelayQueues(u) ==
  /\ At(u, "relay", "composing")
  /\ GoesOut(u)
  /\ eater' = [eater EXCEPT ![u].last = Today]
  /\ digestRun' = digestRun \cup {u}
  /\ sending' = [sending EXCEPT ![u]["relay"] = Never]
  /\ UNCHANGED <<scheduling, line, verified, silent, excuse>>

\* The translation or the commit raises: nothing is kept, the rest waits for
\* the next minute.
RelayFails(u) ==
  /\ At(u, "relay", "composing")
  /\ sending' = [sending EXCEPT ![u]["relay"] = Never]
  /\ line' = [line EXCEPT !.relay = {}]
  /\ UNCHANGED <<scheduling, eater, verified, digestRun, history>>

-----------------------------------------------------------------------------
(* Commands.                                                                *)

\* /digest_at, /tz and the Mini App's settings: saved, then rescheduled.
SetHour(u, hour) ==
  /\ eater[u].active
  /\ eater' = [eater EXCEPT ![u].hour = hour]
  /\ job' = [job EXCEPT ![u] = JobOf(eater'[u], @)]
  /\ Excuse(u, hour # eater[u].hour)
  /\ UNCHANGED <<clock, ringing, line, sending, verified, digests, digestRun, silent>>

Put(u, row) ==
  /\ eater' = [eater EXCEPT ![u] = row]
  /\ UNCHANGED <<clock, ringing, line, sending, verified, digests, digestRun, silent>>

OptedOut(to) == [p \in Sources |-> IF to[p] = "on" THEN "off" ELSE to[p]]

\* The member can write there: in the chat of the environment's bot, or in one
\* of another platform the account was made on or linked with.
Reaches(u, p) == IF p = "legacy" THEN eater[u].chat ELSE eater[u].linked

\* A conversation somebody writes in becomes a destination, which is off.
Noticed(to, p) == [to EXCEPT ![p] = IF @ = "none" THEN "off" ELSE @]

ObserveDestination(u, p) ==
  /\ eater[u].active /\ Reaches(u, p)
  /\ Put(u, [eater[u] EXCEPT !.to = Noticed(@, p)])
  /\ UNCHANGED <<job, excuse>>

\* /reminders in the conversation of a destination, which it also makes.
Reminders(u, p, enabled) ==
  /\ eater[u].active /\ Reaches(u, p)
  /\ Put(u, [eater[u] EXCEPT !.to =
       [(IF enabled THEN OptedOut(@) ELSE @) EXCEPT
          ![p] = IF enabled THEN "on" ELSE "off"]])
  /\ Excuse(u, Doubled(u) \/ (enabled /\ eater[u].to[p] # "on"))
  /\ UNCHANGED job

\* /confirm_link, in the conversation /link was given in.  The account has a
\* second conversation now, of which nothing is kept before somebody writes in
\* it; no job is made for one that gets its Telegram chat this way.
Link(u, p) ==
  /\ eater[u].active /\ Reaches(u, p)
  /\ Put(u, [eater[u] EXCEPT !.chat = TRUE, !.linked = TRUE, !.to = Noticed(@, p)])
  /\ UNCHANGED <<job, excuse>>

\* /leave and /remove revoke the membership, and take the job off under the
\* member's Telegram id, a job that is named for the row's id.
Leave(u) ==
  /\ eater[u].active
  /\ Put(u, [eater[u] EXCEPT !.active = FALSE, !.to = OptedOut(@)])
  /\ job' \in {[job EXCEPT ![u] = Never]}
               \cup (IF u \in Renumbered THEN {job} ELSE {})
  /\ Excuse(u, Doubled(u))

\* /join schedules the member; a join on another platform does not.
Rejoin(u) ==
  /\ ~eater[u].active
  /\ Put(u, [eater[u] EXCEPT !.active = TRUE])
  /\ job' \in {job, [job EXCEPT ![u] = JobOf(eater'[u], @)]}
  /\ UNCHANGED excuse

DigestNext ==
  \/ NextHour \/ NextDate \/ Restart \/ Verify \/ PrepareDigests
  \/ \E u \in Eaters :
       \/ JobRuns(u) \/ JobMisfires(u)
       \/ \E seen \in LastDates, hour \in DayHours : CatchUp(u, seen, hour)
       \/ RelayTurn(u) \/ RelayQueues(u) \/ RelayFails(u)
       \/ \E s \in Senders :
            Send(u, s) \/ DateRecorded(u, s) \/ SendFails(u, s) \/ Retry(u, s)
       \/ \E hour \in DayHours : SetHour(u, hour)
       \/ \E p \in Sources : \/ \E enabled \in BOOLEAN : Reminders(u, p, enabled)
                            \/ ObserveDestination(u, p) \/ Link(u, p)
       \/ Leave(u) \/ Rejoin(u)

DigestSpec == DigestInit /\ [][DigestNext]_digestVars

-----------------------------------------------------------------------------
(* Properties.                                                              *)

\* The job, its retry, the catch-up and the relay never look at each other, and
\* only the relay keeps a run; still a member gets a second digest of a date
\* only if the first was sent and not recorded, the hour or the destination was
\* changed that day or while the relay worked through its list, the catch-up
\* overlapped the job or went by what had changed since the start, or both
\* destinations of the member were on.
SecondDigestHasACause ==
  \A u \in Eaters : digests[u] = 2 => u \in excuse \/ Doubled(u)

\* A date that is recorded was served: a failure before the digest is out
\* leaves the day to the retry and the catch-up.
RecordedWasServed ==
  \A u \in Eaters : eater[u].last = Today => digests[u] > 0 \/ u \in silent

\* A job that exists rings at its member's hour, also one left over from a
\* member who was removed and came back.
JobAtTheMembersHour == \A u \in Eaters : job[u] \in {eater[u].hour, Never}

\* Whatever job is left over and however long a retry waits: no digest is
\* begun for someone who is not a member at that moment.
OnlyMembersAreTried ==
  sending' # sending => \A u \in Eaters, s \in Senders :
    sending'[u][s] # Never /\ sending'[u][s] # sending[u][s]
      => eater[u].active \/ sending'[u][s].at # "composing"

DigestsHold == /\ [](SecondDigestHasACause /\ RecordedWasServed /\ JobAtTheMembersHour)
               /\ [][OnlyMembersAreTried]_digestVars
=============================================================================
