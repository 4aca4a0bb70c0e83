------------------------------- MODULE DfuEntry -------------------------------
(***************************************************************************)
(* How the toolkit finds a robot on USB and waits for its RAM loader       *)
(* (jibo_dfu.py: devices, enter_shofel_dfu, _settled_dfu_alternatives).    *)
(* ShofEL sends the loader to a robot in RCM; the robot comes back on the  *)
(* same port in DFU, or not, and its alternatives and the access to them   *)
(* appear one after the other.  Every wait has a deadline.                 *)
(*                                                                         *)
(* A unit of time is the nap between two looks, a quarter of a second; the *)
(* steps of the toolkit take no time themselves.                           *)
(***************************************************************************)
EXTENDS Naturals

CONSTANTS
  Profiles,    \* the alternatives loaders may list, as sets
  LoadTime,    \* given to ShofEL (180 s)
  EntryTime,   \* given to the loader to come up and settle (120 s)
  SettleTime,  \* given to a loader that is up to list all (25 s)
  ListTime     \* given to one listing (30 s)

Whole == {"marker", "var"}   \* what the loader of the toolkit lists at least

ASSUME ProfilesAssumption == {} \in Profiles
ASSUME TimesAssumption ==
  /\ LoadTime \in Nat \ {0} /\ EntryTime \in Nat \ {0}
  /\ SettleTime \in Nat \ {0} /\ ListTime \in Nat \ {0}

VARIABLES
  bus,      \* the robot at the port: "none", "rcm" or "dfu"
  others,   \* whether there is another one, at another port
  alts,     \* the alternatives it lists now
  stage,    \* what the toolkit waits for
  purpose,  \* to enter DFU, for the context of an operation, or to show
  clock,    \* the time since that wait began
  stop,     \* when settling ends
  until,    \* when the listing that runs is killed
  names     \* what was listed last

busVars == <<bus, others, alts>>
waitVars == <<stage, purpose, clock, stop, until, names>>
entryVars == <<busVars, waitVars>>

Sooner(a, b) == IF a < b THEN a ELSE b

-----------------------------------------------------------------------------
(* Mutations, each a slip the code could have made (see PROJECT.json).     *)
AlwaysListTime(now, end) == now + ListTime    \* the listing's own time-out only

-----------------------------------------------------------------------------
EntryInit ==
  /\ bus = "none" /\ others = FALSE /\ alts = {}
  /\ stage = "off" /\ purpose = "inspect"
  /\ clock = 0 /\ stop = 0 /\ until = 0 /\ names = {}

(* The user, the cable, the robot and the forwarding of USB.               *)
PortChanges ==
  /\ \/ bus = "none" /\ bus' \in {"rcm", "dfu"}
     \/ bus # "none" /\ bus' = "none"
  /\ IF bus' = "dfu" THEN alts' \in Profiles ELSE alts' = {}
  /\ UNCHANGED others

MoreListed ==
  /\ bus = "dfu" /\ alts' \in Profiles /\ alts \subseteq alts' /\ alts' # alts
  /\ UNCHANGED <<bus, others>>

OtherRobot == others' = ~others /\ UNCHANGED <<bus, alts>>

-----------------------------------------------------------------------------
Waits(next) == stage' = next

Listed(found) == names' = found

Detected(state) == bus = state

(* The choice of one of the devices: by its port, or the only one.         *)
Selects(state, byPort) == Detected(state) /\ (byPort \/ ~others)

Begins(why, next) ==
  /\ stage = "off"
  /\ purpose' = why /\ Waits(next) /\ clock' = 0
  /\ UNCHANGED <<until, names>>

(* enter_shofel_dfu: a robot in RCM and all the tools and images there.    *)
EntryBegins(byPort) ==
  /\ \/ Selects("rcm", byPort) /\ Begins("entry", "loading")
     \/ Begins("entry", "failed")
  /\ UNCHANGED <<busVars, stop>>

LoaderStarts ==
  /\ stage = "loading" /\ bus = "rcm"
  /\ bus' = "none" /\ Waits("waiting") /\ clock' = 0
  /\ UNCHANGED <<others, alts, purpose, stop, until, names>>

LoadFails ==
  /\ stage = "loading"
  /\ Waits("failed")
  /\ UNCHANGED <<busVars, purpose, clock, stop, until, names>>

Settles(end) == stop' = Sooner(clock' + SettleTime, end) /\ Waits("settling")

EntryLooks ==
  /\ stage = "waiting"
  /\ UNCHANGED <<busVars, purpose, clock, until, names>>
  /\ CASE clock >= EntryTime -> Waits("failed") /\ UNCHANGED stop
       [] clock < EntryTime /\ bus = "dfu" -> Settles(EntryTime)
       [] clock < EntryTime /\ bus # "dfu" -> Waits("napping") /\ UNCHANGED stop

(* _dfu_context: every operation settles again.                            *)
ContextBegins(byPort) ==
  /\ \/ Selects("dfu", byPort) /\ Begins("context", "settling") /\ stop' = SettleTime
     \/ ~Selects("dfu", byPort) /\ Begins("context", "failed") /\ UNCHANGED stop
  /\ UNCHANGED busVars

-----------------------------------------------------------------------------
(* One listing by dfu-util.  While the toolkit settles it is killed in     *)
(* time for the deadline of the wait it belongs to.                        *)
ListLimit(now, end) == Sooner(now + ListTime, end)

SettleLooks ==
  /\ \/ stage = "settling"
     \/ stage = "resting" /\ clock >= stop    \* no time left for a nap
  /\ IF clock < stop
     THEN Waits("listing") /\ until' = ListLimit(clock, stop)
     ELSE Waits("failed") /\ UNCHANGED until
  /\ UNCHANGED <<busVars, purpose, clock, stop, names>>

(* inspect_readiness lists without a deadline of its own.                  *)
InspectLists ==
  /\ stage = "off"
  /\ purpose' = "inspect" /\ Waits("listing")
  /\ clock' = 0 /\ until' = ListTime
  /\ UNCHANGED <<busVars, stop, names>>

ListEnds ==
  /\ stage = "listing"
  /\ \/ Listed(IF bus = "dfu" THEN alts ELSE {})
     \/ Listed({})                       \* no access, an error, or killed
  /\ Waits(IF purpose = "inspect" \/ Whole \subseteq names' THEN "done" ELSE "resting")
  /\ UNCHANGED <<busVars, purpose, clock, stop, until>>

(* Time passes in naps and while a child runs, never past its time-out.    *)
Tick ==
  /\ \/ stage = "napping" /\ Waits("waiting")
     \/ stage = "resting" /\ clock < stop /\ Waits("settling")
     \/ stage = "loading" /\ clock < LoadTime /\ UNCHANGED stage
     \/ stage = "listing" /\ clock < until /\ UNCHANGED stage
  /\ clock' = clock + 1
  /\ UNCHANGED <<busVars, purpose, stop, until, names>>

(* The caller has what it wanted, or an exception.                         *)
WaitOver ==
  /\ Waits("off") /\ clock' = 0 /\ stop' = 0 /\ until' = 0 /\ names' = {}
  /\ UNCHANGED purpose

WaitStep ==
  LoaderStarts \/ LoadFails \/ EntryLooks \/ SettleLooks \/ ListEnds \/ Tick

-----------------------------------------------------------------------------
EntryTypeOK ==
  /\ bus \in {"none", "rcm", "dfu"} /\ others \in BOOLEAN
  /\ alts \in Profiles /\ names \in Profiles
  /\ stage \in {"off", "loading", "waiting", "napping", "settling", "listing", "resting",
                "done", "failed"}
  /\ purpose \in {"entry", "context", "inspect"}
  /\ {clock, stop, until} \subseteq Nat

(* Neither a loader that comes up late, nor one that lists its             *)
(* alternatives slowly, nor a listing that hangs makes an entry or an      *)
(* operation wait past its deadline, and what it goes on with is a whole   *)
(* loader of the toolkit, listed within that time.                         *)
Waiting == stage \in {"waiting", "napping", "settling", "listing", "resting", "done"}

EntryOnTime ==
  /\ Waiting /\ purpose = "entry" => clock <= EntryTime
  /\ Waiting /\ purpose = "context" => clock <= SettleTime
  /\ stage = "done" /\ purpose # "inspect" => Whole \subseteq names
=============================================================================
