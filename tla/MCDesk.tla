------------------------------- MODULE MCDesk -------------------------------
(***************************************************************************)
(* What runs beside the decision in threads and tasks of its own: start-   *)
(* up, settings and shutdown, the feed and risk threads that wake the      *)
(* scheduler, the notices to Telegram, and the news provider.  They share  *)
(* no state of these models, so each behaviour explores one (focus) -      *)
(* start-up, the event path, the signal tracker, the digest, the command   *)
(* poller, the news - while the others rest.                               *)
(***************************************************************************)
EXTENDS Notices, Startup, NewsFeed, EventPath

VARIABLE focus

deskVars == <<focus, noticesVars, startupVars, newsFeedVars, pathVars>>

DeskInit ==
  /\ focus \in {"tracker", "digest", "poller", "startup", "news", "events"}
  /\ NoticesInit /\ StartupInit /\ NewsFeedInit /\ EventPathInit
  /\ focus # "startup" => enabled = {}
  /\ focus # "digest" => windowed

NoticesStep ==
  \/ focus = "tracker" /\ TrackerNext
  \/ focus = "digest" /\ DigestNext
  \/ focus = "poller" /\ PollerNext
  \/ /\ focus \in {"tracker", "digest", "poller"} /\ RestartNotices
     /\ focus # "digest" => windowed'

DeskNext ==
  /\ \/ NoticesStep /\ UNCHANGED <<startupVars, newsFeedVars, pathVars>>
     \/ focus = "startup" /\ StartupNext /\ UNCHANGED <<noticesVars, newsFeedVars, pathVars>>
     \/ focus = "news" /\ NewsFeedNext /\ UNCHANGED <<noticesVars, startupVars, pathVars>>
     \/ focus = "events" /\ EventPathNext /\ UNCHANGED <<noticesVars, startupVars, newsFeedVars>>
  /\ UNCHANGED focus

\* The fairness of the event path, for the behaviours that explore it.
EventFairness ==
  /\ WF_pathVars(focus = "events" /\ Schedule)
  /\ WF_pathVars(focus = "events" /\ FeedStep)
  /\ WF_pathVars(focus = "events" /\ RiskWake)

DeskSpec == DeskInit /\ [][DeskNext]_deskVars /\ TimerFairness /\ EventFairness
=============================================================================
