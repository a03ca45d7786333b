------------------------------ MODULE NewsFeed ------------------------------
(***************************************************************************)
(* The news and calendar provider (market/news_feed.py): one object, no    *)
(* lock, asked by the scheduler's cycles and by the dashboard.  It caches  *)
(* what it fetched, throttles itself by time to live, by a minimum gap and *)
(* by a cooldown after a 429, tries the calendar's sources in order, and   *)
(* keeps the last good data in one file that a restart reads.              *)
(* A fetch takes time: the throttles are looked at when it starts, and its *)
(* outcome is stored with the time it started.  So does a save: the cache, *)
(* what is to be written and the file are three steps.                     *)
(***************************************************************************)
EXTENDS Naturals, Sequences

CONSTANTS
  Callers,                 \* threads that ask the provider
  CalendarTtl, NewsTtl,    \* CALENDAR_CACHE_TTL, NEWS_CACHE_TTL
  MinInterval,             \* CALENDAR_MIN_FETCH_INTERVAL
  RetryAfters,             \* cooldowns a 429 may ask for
  MaxClock,                \* bound: time
  MaxFeedBoots             \* bound: restarts

ASSUME NewsFeedAssumption ==
  /\ {CalendarTtl, NewsTtl, MinInterval, MaxClock, MaxFeedBoots} \subseteq Nat
  /\ RetryAfters \subseteq Nat \ {0}

VARIABLES
  clock,
  calendar,       \* _cached_calendar: the weekly one, the Federal Reserve's, or none
  calendarAt,     \* _calendar_fetched_at, 0: never
  nextAllowed,    \* _calendar_next_allowed_at
  cooldownUntil,  \* _calendar_429_until
  news, newsAt,   \* _cached_news, _news_fetched_at
  file,           \* the disk cache
  asking,         \* per caller: what it is at, on whose behalf, since when, what it
                  \* is about to write and what it does then
  feedBoots

calendarVars == <<calendar, calendarAt, nextAllowed, cooldownUntil>>
newsVars == <<news, newsAt>>
newsFeedVars == <<clock, calendarVars, newsVars, file, asking, feedBoots>>

\* The sources of the calendar, in the order they are tried: the weekly calendar
\* as JSON and as XML, then the Federal Reserve's own events.
Sources == <<"weekly", "weekly", "fed">>
Calendars == {"none"} \cup {Sources[i] : i \in DOMAIN Sources}

NoFile == [readable |-> FALSE, calendar |-> "none", news |-> FALSE, saved |-> 0]
Resting == [at |-> "idle", operator |-> FALSE, since |-> 0, save |-> NoFile, then |-> "idle"]

NewsFeedInit ==
  /\ clock = 1
  /\ calendar = "none" /\ calendarAt = 0 /\ nextAllowed = 0 /\ cooldownUntil = 0
  /\ news = FALSE /\ newsAt = 0
  /\ file = NoFile
  /\ asking = [c \in Callers |-> Resting]
  /\ feedBoots = 0

-----------------------------------------------------------------------------
(* News                                                                    *)

Fresh(at, ttl) == at > 0 /\ clock - at < ttl

\* get_news_context and the dashboard ask for the headlines first; fresh ones are
\* served unless the operator pressed refresh.
AskNews(c, operator) ==
  /\ asking[c].at = "idle"
  /\ asking' = [asking EXCEPT
       ![c].at = IF Fresh(newsAt, NewsTtl) /\ ~operator THEN "calendar" ELSE "news",
       ![c].operator = operator, ![c].since = clock]
  /\ UNCHANGED <<clock, calendarVars, newsVars, file, feedBoots>>

\* The feeds that answered give the headlines; when none did, nothing changes.
NewsArrives(c) ==
  /\ asking[c].at = "news"
  /\ \/ /\ news' = TRUE /\ newsAt' = asking[c].since
        /\ asking' = [asking EXCEPT ![c].at = "save", ![c].then = "calendar"]
     \/ /\ UNCHANGED newsVars
        /\ asking' = [asking EXCEPT ![c].at = "calendar"]
  /\ UNCHANGED <<clock, calendarVars, file, feedBoots>>

-----------------------------------------------------------------------------
(* _save_disk_cache                                                        *)

\* Both caches, as they are now, and one time.
BuildPayload(c) ==
  /\ asking[c].at = "save"
  /\ asking' = [asking EXCEPT ![c].at = "write", ![c].save =
       [readable |-> TRUE, calendar |-> calendar, news |-> news, saved |-> clock]]
  /\ UNCHANGED <<clock, calendarVars, newsVars, file, feedBoots>>

\* Opening the file empties it: a write that fails later, or meets another thread's,
\* leaves it torn, one that fails before leaves it as it was.
WritePayload(c) ==
  /\ asking[c].at = "write"
  /\ file' \in {file, NoFile, asking[c].save}
  /\ asking' = [asking EXCEPT ![c] =
       IF asking[c].then = "idle" THEN Resting
       ELSE [asking[c] EXCEPT !.at = asking[c].then, !.save = NoFile, !.then = "idle"]]
  /\ UNCHANGED <<clock, calendarVars, newsVars, feedBoots>>

-----------------------------------------------------------------------------
(* Calendar                                                                *)

\* The operator's refresh goes past every throttle.
Throttled ==
  \/ clock < cooldownUntil
  \/ Fresh(calendarAt, CalendarTtl)
  \/ clock < nextAllowed

AskCalendar(c) ==
  /\ asking[c].at = "calendar"
  /\ asking' = [asking EXCEPT ![c] =
       IF Throttled /\ ~asking[c].operator THEN Resting
       ELSE [Resting EXCEPT !.at = "fetch", !.since = clock]]
  /\ UNCHANGED <<clock, calendarVars, newsVars, file, feedBoots>>

\* Every 429 on the way sets the one cooldown of all sources; the last one stands.
Cooldowns(failed, since) ==
  {cooldownUntil} \cup {since + wait : wait \in IF failed = 0 THEN {} ELSE RetryAfters}

\* Mutant: an empty answer replaces what is cached.
Parsed_Always(source, empty) == IF empty THEN "none" ELSE Sources[source]

\* An empty payload keeps the last good data.
Parsed(source, empty) == IF empty THEN calendar ELSE Sources[source]

\* The first source that answers 200 ends the round, with events or without any;
\* those before it answered 429, something else, or not at all.
CalendarArrives(c) ==
  /\ asking[c].at = "fetch"
  /\ \E failed \in 0..Len(Sources) :
       /\ cooldownUntil' \in Cooldowns(failed, asking[c].since)
       /\ IF failed = Len(Sources)
          THEN /\ UNCHANGED <<calendar, calendarAt, nextAllowed>>
               /\ asking' = [asking EXCEPT ![c] = Resting]
          ELSE \E empty \in BOOLEAN :
                 /\ calendar' = Parsed(failed + 1, empty)
                 /\ calendarAt' = asking[c].since
                 /\ nextAllowed' = asking[c].since + MinInterval
                 /\ asking' = [asking EXCEPT ![c] =
                      IF empty THEN Resting ELSE [Resting EXCEPT !.at = "save"]]
  /\ UNCHANGED <<clock, newsVars, file, feedBoots>>

-----------------------------------------------------------------------------
(* Time and restart                                                        *)

TimePasses ==
  /\ clock < MaxClock /\ clock' = clock + 1
  /\ UNCHANGED <<calendarVars, newsVars, file, asking, feedBoots>>

\* _load_disk_cache: what the file holds, and its one time for both caches; the
\* throttles start afresh.
RestartFeed ==
  /\ feedBoots < MaxFeedBoots /\ feedBoots' = feedBoots + 1
  /\ asking' = [c \in Callers |-> Resting]
  /\ calendar' = file.calendar /\ news' = file.news
  /\ calendarAt' = file.saved /\ newsAt' = file.saved
  /\ nextAllowed' = 0 /\ cooldownUntil' = 0
  /\ UNCHANGED <<clock, file>>

NewsFeedNext ==
  \/ \E c \in Callers :
       \/ \E operator \in BOOLEAN : AskNews(c, operator)
       \/ NewsArrives(c) \/ AskCalendar(c) \/ CalendarArrives(c)
       \/ BuildPayload(c) \/ WritePayload(c)
  \/ TimePasses \/ RestartFeed

NewsFeedSpec == NewsFeedInit /\ [][NewsFeedNext]_newsFeedVars

-----------------------------------------------------------------------------
(* Properties                                                              *)

\* As long as the service runs, headlines and a calendar that were fetched are never lost,
\* to an empty answer, failing sources, a failing save or what another thread fetches or
\* saves meanwhile: the next caller gets them or newer ones (news_feed.py: "keep serving
\* the last good data if any").
LastGoodServed ==
  [][/\ calendar # "none" /\ calendar' = "none" => feedBoots' > feedBoots
     /\ news /\ ~news' => feedBoots' > feedBoots]_newsFeedVars

\* What the file is for: a save that succeeds never takes away the calendar an earlier
\* one had stored ("so restarts never show empty").
SavedCalendarStays ==
  [][file.calendar # "none" /\ file'.readable => file'.calendar # "none"]_newsFeedVars

=============================================================================
