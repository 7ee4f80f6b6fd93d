------------------------------ MODULE Dispatch ------------------------------
(***************************************************************************)
(* The advisory dispatch of a site's battery (packages/optimisation/src):  *)
(* optimiseSite for one hour, and runHorizon, which plans hour after hour  *)
(* from the state of charge that simulateDispatch says the last plan left. *)
(* Planner and simulator are written apart and must agree.                 *)
(*                                                                         *)
(* Abstractions: an energy is counted in ten-thousandths of a percent of   *)
(* the battery's capacity, the last digit of a state of charge; Grain of   *)
(* them are a watt-hour, to which a plan is rounded.  A step is an hour    *)
(* long, efficiencies are in percent.  The columns for energy recovered    *)
(* and for money, and which strategy wins by them, are left out.           *)
(***************************************************************************)
EXTENDS Integers, FiniteSetsExt, Sequences

CONSTANTS
  Hours,        \* inputs: [forecast, load, exportLimit, tariff]
  Length,       \* hours of the horizon
  Sites,        \* [power, cRate, reserved, hydrogen (g), flexible, blocked, root]
  Grain,        \* a watt-hour of this battery: 1000 / batteryCapacityKwh
  Reserve, Maximum,   \* reserveSocPct and maximumSocPct
  Charges,      \* initialSocPct, within the limits
  RoundTrip     \* economics.roundTripEfficiency (92 by default)

Percent == 10000

HourRecords == [forecast : Nat, load : Nat, exportLimit : Nat, tariff : Nat]
\* flexible holds flexibleLoadLimitKw, if there is one.
SiteRecords == [power : Nat, cRate : Nat, reserved : Nat, hydrogen : Nat,
                flexible : SUBSET Nat, blocked : BOOLEAN, root : 1 .. 100]

\* optimiseSite clamps the efficiency to 50 .. 100, simulateDispatch takes a battery for a
\* kilowatt-hour at least; sitePlan keeps the limits a percent apart, as 15 and 90 are,
\* which every caller of optimiseHorizon leaves at that.
ASSUME DispatchAssumption ==
  /\ Grain \in 1 .. 1000 /\ {Reserve, Maximum} \subseteq Nat
  /\ Reserve + Percent <= Maximum /\ Maximum <= 100 * Percent
  /\ Charges \subseteq Reserve .. Maximum /\ RoundTrip \in 50 .. 100
  /\ Length \in Nat /\ Hours \subseteq HourRecords /\ Sites \subseteq SiteRecords

VARIABLES
  horizon, site, strategy,   \* the call
  soc,          \* socPct
  plan,         \* the last hour's plan
  hour,         \* hours planned
  violations,   \* constraintViolations of the last hour
  satisfied,    \* constraintsSatisfied of the horizon
  left          \* history: the state of charge the last plan leaves, before the clamp

dispatchVars == <<horizon, site, strategy, soc, plan, hour, violations, satisfied, left>>

NoPlan == [charge |-> 0, discharge |-> 0, hydrogen |-> 0, satisfied |-> TRUE]

DispatchInit ==
  /\ horizon \in [1 .. Length -> Hours] /\ site \in Sites
  /\ strategy \in {"greedy", "arbitrage"}
  /\ soc \in Charges /\ left = soc
  /\ plan = NoPlan /\ hour = 0 /\ violations = {} /\ satisfied = TRUE

NotNegative(x) == Max({0, x})
Least(xs) == Min(xs)

\* toFixed: n / d, rounded to the nearest whole number.
Nearest(n, d) == (2 * n + d) \div (2 * d)
-----------------------------------------------------------------------------
\* Mutant: the battery gives what it holds, whatever is lost on the way.
Lossless(held) == held * 100
\* capacityLimitedDischarge * roundTrip, in hundredths.
Delivered(held) == held * RoundTrip

\* capacityLimitedCharge.
Room(charged, maximum) == NotNegative(maximum - charged)

\* remainingCurtailment, in fifths: load * 0.2 is flexible unless the site says.
Remaining(h, curtailed) ==
  NotNegative(5 * curtailed - (IF site.flexible = {} THEN h.load
                               ELSE 5 * (CHOOSE limit \in site.flexible : TRUE)))

\* optimiseSite, for an hour that begins with charged in the battery.
OptimiseSite(h, charged, reserve, maximum) ==
  LET surplus == NotNegative(h.forecast - h.load)
      deficit == NotNegative(h.load - h.forecast)
      headroom == NotNegative(h.exportLimit - surplus)
      held == NotNegative(charged - reserve - site.reserved)
      charge ==
        IF charged >= maximum \/ site.blocked THEN 0
        ELSE Least({site.power, site.cRate, Room(charged, maximum), surplus,
                    IF headroom = 0 THEN surplus ELSE headroom})
      discharge ==   \* in hundredths
        IF charged <= reserve \/ site.blocked THEN 0
        ELSE Least({100 * site.power, 100 * site.cRate, Delivered(held), 100 * deficit})
      curtailed ==
        NotNegative(surplus - charge + (discharge \div 100) - h.exportLimit)
      gram == 250 * Grain   \* a kilogram takes 50 kWh
  IN [charge |-> Grain * Nearest(charge, Grain),
      discharge |-> Grain * Nearest(discharge, 100 * Grain),
      hydrogen |-> Nearest(Least({gram * site.hydrogen, Remaining(h, curtailed)}), gram),
      satisfied |-> charged \in 0 .. 100 * Percent /\ reserve < maximum /\ ~site.blocked]

\* sitePlan: the battery's limits, the lower one raised to floor.
SitePlan(h, charged, floor) ==
  OptimiseSite(h, charged, Least({Maximum - Percent, Max({Reserve, floor})}),
               Max({Reserve + Percent, Maximum}))

\* arbitrageHorizon: an hour that a dearer one follows keeps what it has.
KeepsForLater(i) ==
  LET peak == Max({horizon[j].tariff : j \in 1 .. Length} \cup {0}) IN
  /\ \E j \in i + 1 .. Length : horizon[j].tariff > horizon[i].tariff + 20
  /\ horizon[i].tariff < peak - 5

Decided(i) ==
  SitePlan(horizon[i], soc,
           IF strategy = "arbitrage" /\ KeepsForLater(i) THEN soc ELSE Reserve)
-----------------------------------------------------------------------------
\* The state of charge after a plan, to its last digit; root is the square root of
\* site.roundTripEfficiency.
After(p, charged) ==
  charged + Nearest(p.charge * site.root, 100) + Nearest(-(p.discharge * 100), site.root)

\* What simulateDispatch compares is not rounded: it is below (above) a whole number when
\* its floor (ceiling) is.  A plan that also does the opposite is refused for that.
Ceiling(n, d) == (n + d - 1) \div d
AfterFloor(p, charged) ==
  charged + (p.charge * site.root) \div 100 - Ceiling(p.discharge * 100, site.root)
AfterCeiling(p, charged) ==
  charged + Ceiling(p.charge * site.root, 100) - (p.discharge * 100) \div site.root

\* rounding: 0.05 of kW, of kg and of percent.
RoundingKw == 50 * Grain
RoundingKg == 50
RoundingSoc == Percent \div 20

\* simulateDispatch: violations, and the state of charge within the limits.
Violated(p, charged) ==
  {v \in {"charge-power", "discharge-power", "hydrogen-rate", "reserve-soc", "maximum-soc",
          "simultaneous-charge-discharge"} :
    CASE v = "charge-power" -> p.charge > site.power + RoundingKw
      [] v = "discharge-power" -> p.discharge > site.power + RoundingKw
      [] v = "hydrogen-rate" -> p.hydrogen > site.hydrogen + RoundingKg
      [] v = "reserve-soc" -> AfterFloor(p, charged) < Reserve - RoundingSoc
      [] v = "maximum-soc" -> AfterCeiling(p, charged) > Maximum + RoundingSoc
      [] OTHER -> p.charge > 0 /\ p.discharge > 0}

Clamped(charged) == Least({Maximum, Max({Reserve, charged})})

\* runHorizon: a plan the simulation refuses is planned again without the strategy.
PlanHour ==
  LET first == Decided(hour + 1)
      bad(p) == Violated(p, soc) # {} \/ ~p.satisfied
      p == IF bad(first) THEN SitePlan(horizon[hour + 1], soc, Reserve) ELSE first
  IN /\ hour < Length
     /\ plan' = p
     /\ violations' = Violated(p, soc)
     /\ satisfied' = (satisfied /\ ~bad(p))
     /\ left' = After(p, soc)
     /\ soc' = Clamped(left')
     /\ hour' = hour + 1
     /\ UNCHANGED <<horizon, site, strategy>>

DispatchSpec == DispatchInit /\ [][PlanHour]_dispatchVars
-----------------------------------------------------------------------------
\* A battery that loses no more on the way out than the planner allows for, and of which
\* a watt-hour is no more than the simulator lets pass.
Foreseen == site.root >= RoundTrip /\ Grain <= RoundingSoc

(***************************************************************************)
(* The simulator finds nothing to object to in what the planner proposes,  *)
(* hour after hour, whatever the strategy, though a plan is rounded and    *)
(* may ask for a little more than there is; and the clamp that keeps the   *)
(* state of charge within the limits hides no more than that rounding, a   *)
(* watt-hour.  The two use different efficiencies, hence Foreseen.         *)
(***************************************************************************)
PlansAreFeasible ==
  Foreseen => /\ violations = {} /\ (satisfied \/ site.blocked)
              /\ soc - left \in -Grain .. Grain
=============================================================================
