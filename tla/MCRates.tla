------------------------------- MODULE MCRates -------------------------------
(***************************************************************************)
(* The two ways of the library to limit a rate by reserving time on the    *)
(* monotonic clock: SpeedLimitTransformer and QpsPool.  They share no      *)
(* state, so a behaviour follows one of them while the other one rests.    *)
(***************************************************************************)
EXTENDS SpeedLimit

CONSTANTS Threads, Interval, MaxUnits

VARIABLES follows, (* "speed" or "pool"                                    *)
          ppc, pwait, units, plan, last, plevel, raced

pvars == <<ppc, pwait, units, plan, last, plevel, raced>>

Pool == INSTANCE QpsPool WITH pc <- ppc, wait <- pwait, level <- plevel

ASSUME PoolAssumption == Pool!Assumed

RatesInit == follows \in {"speed", "pool"} /\ Init /\ Pool!Init

Speed(A) == follows = "speed" /\ A /\ UNCHANGED <<follows, pvars>>
Qps(A) == follows = "pool" /\ A /\ UNCHANGED <<follows, vars>>

RatesNext == Speed(Next) \/ Qps(Pool!Next)

(* The fairness of the two specifications, each for the behaviours that    *)
(* follow it.                                                              *)
Passes == Speed(Tick) \/ Qps(Pool!Tick)
Goes(u) == \/ u \in Tasks /\ Speed(Step(u))
           \/ Qps(Pool!Store(u) \/ Pool!Acquired(u))

Rates == /\ RatesInit /\ [][RatesNext]_<<follows, vars, pvars>>
         /\ WF_<<follows, vars, pvars>>(Passes)
         /\ \A u \in Pool!Users : WF_<<follows, vars, pvars>>(Goes(u))

(* PermitsSpaced of QpsPool: no more permits than the limit allows for the *)
(* time and one largest request, unless two threads race in _get_wait_sec. *)
PermitsSpaced == Pool!PermitsSpaced

Busy(u) == IF follows = "pool" THEN ppc[u] # "idle"
                               ELSE u \in Tasks /\ Writing(u)

(* Each acquire() of the pool and each write() through the transformer     *)
(* ends, whatever other users take meanwhile.                              *)
SleepersReturn == \A u \in Pool!Users : Busy(u) ~> ~Busy(u)
=============================================================================
