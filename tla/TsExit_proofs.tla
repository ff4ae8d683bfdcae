---------------------------- MODULE TsExit_proofs ---------------------------
(***************************************************************************)
(* Proofs about TsExit for every configuration, amount and bound: types,   *)
(* nothing recorded before it was taken out, no sale beyond the cap of what *)
(* was (whatever else fails), and, as long as closePosition() is not           *)
(* interrupted, capital that is never forgotten, harmless log messages,    *)
(* proceeds in both books and one delivery.                                *)
(***************************************************************************)
EXTENDS TsExit, TLAPS

USE DEF setup

(* The cap of a sale is no less than what it is the cap of, and grows with  *)
(* it.                                                                      *)
LEMMA CapNat == ASSUME NEW n \in Nat PROVE CapOf(n) \in Nat /\ n <= CapOf(n)
BY ExitAssumption DEF CapOf

LEMMA CapGrows ==
  ASSUME NEW m \in Nat, NEW n \in Nat, m <= n PROVE CapOf(m) <= CapOf(n)
<1> DEFINE q == m \div CapShare
           r == n \div CapShare
<1>1. CapShare \in Nat /\ CapShare > 0
  BY ExitAssumption
<1>2. /\ q \in Nat /\ r \in Nat
      /\ CapShare * q <= m /\ n < CapShare * (r + 1)
  BY <1>1
<1>3. q <= r
  <2> SUFFICES ASSUME r + 1 <= q PROVE FALSE
    BY <1>2
  <2> HIDE DEF q, r
  <2>1. CapShare * (r + 1) <= CapShare * q
    BY <1>1, <1>2
  <2> QED BY <1>1, <1>2, <2>1
<1> QED BY <1>2, <1>3 DEF CapOf

(* A tranche is the whole sale or one unit of it.                           *)
ChunkFits == pc = "swap" => chunk <= left /\ (chunk = 1 \/ chunk = left)
TInv == TypeOK /\ ChunkFits

(* The types of what the chain and the history hold.                        *)
WorldTypes ==
  /\ liquidity \in BOOLEAN /\ fees \in Nat /\ nft \in BOOLEAN
  /\ wallet \in [Mints -> Nat]
  /\ released \in [Sides -> Nat] /\ sold \in [Sides -> Nat] /\ sent \in [Mints -> Nat]

LEMMA EffectTypes ==
  ASSUME TInv, Effect PROVE WorldTypes'
<1> USE ExitAssumption DEF TInv, TypeOK, Sides, Mints, WorldTypes, chainVars, history
<1>1. CASE pc = "claim" /\ ClaimEffect
  BY <1>1 DEF ClaimEffect
<1>2. CASE pc = "decrease" /\ DecreaseEffect
  <2>1. Principal["A"] \in Nat /\ Principal["B"] \in Nat
    OBVIOUS
  <2>2. wallet' \in [Mints -> Nat]
    BY <1>2, <2>1 DEF DecreaseEffect
  <2>3. released' \in [Sides -> Nat]
    BY <1>2 DEF DecreaseEffect
  <2> QED BY <1>2, <2>2, <2>3 DEF DecreaseEffect
<1>3. CASE pc = "burn" /\ BurnEffect
  BY <1>3 DEF BurnEffect
<1>4. CASE pc = "swap" /\ SwapEffect
  <2>1. side \in Mints /\ chunk \in Nat /\ wallet[side] - chunk \in Nat
    BY <1>4 DEF SwapEffect
  <2>2. wallet' \in [Mints -> Nat]
    BY <1>4, <2>1 DEF SwapEffect
  <2>3. sold' \in [Sides -> Nat]
    BY <1>4 DEF SwapEffect
  <2> QED BY <1>4, <2>2, <2>3 DEF SwapEffect
<1>5. CASE pc = "pay" /\ PayEffect
  <2>1. PayMint \in Mints /\ left \in Nat
    BY DEF PayMint, MintOf
  <2>2. wallet[PayMint] - left \in Nat
    BY <1>5, <2>1 DEF PayEffect
  <2>3. wallet' \in [Mints -> Nat] /\ sent' \in [Mints -> Nat]
    BY <1>5, <2>1, <2>2 DEF PayEffect
  <2> QED BY <1>5, <2>3 DEF PayEffect
<1> QED BY <1>1, <1>2, <1>3, <1>4, <1>5 DEF Effect

RowTypes ==
  /\ cfg \in Configs /\ around \in Circumstances
  /\ dbOpen \in BOOLEAN /\ active \in BOOLEAN
  /\ step \in Steps /\ rec \in [Sides -> Nat] /\ recUsdc \in Nat /\ errored \in BOOLEAN
  /\ closeRow \in BOOLEAN /\ closeUsd \in Nat /\ fresh \in BOOLEAN /\ flow \in Nat
  /\ message \in {"none", "log", "visible"}

Places == Awaits \cup {"idle", "withdraw", "sell", "swapped", "send", "transferred", "finish"}
RunTypes ==
  /\ pc \in Places /\ coins \in [Sides -> Nat] /\ usdc \in Nat
  /\ side \in Sides /\ left \in Nat /\ chunk \in Nat
  /\ drainTx \in BOOLEAN /\ out \in BOOLEAN
  /\ ChunkFits

LEMMA Parts == TInv <=> WorldTypes /\ RowTypes /\ RunTypes
BY DEF TInv, TypeOK, WorldTypes, RowTypes, RunTypes, Places

LEMMA SameWorld ==
  ASSUME TInv, UNCHANGED <<chainVars, wallet, history>> PROVE WorldTypes'
BY Parts DEF WorldTypes, chainVars, history

LEMMA ZeroTyped == Zero \in [Sides -> Nat]
BY DEF Zero

LEMMA Forgotten == ASSUME ForgetRun PROVE RunTypes'
<1>1. /\ pc' = "idle" /\ coins' = Zero /\ usdc' = 0
      /\ side' = "A" /\ left' = 0 /\ chunk' = 0
      /\ drainTx' = FALSE /\ out' = FALSE
  BY DEF ForgetRun
<1>2. ChunkFits' /\ side' \in Sides /\ coins' \in [Sides -> Nat]
  BY <1>1, ZeroTyped DEF ChunkFits, Sides
<1> QED BY <1>1, <1>2 DEF RunTypes, Places

(* The withdrawn step keeps the types of what it writes.                    *)
LEMMA WithdrawnTypes ==
  ASSUME TInv, NEW c \in [Sides -> Nat], Withdrawn(c), drainTx' \in BOOLEAN,
         UNCHANGED <<setup, closeUsd, flow, fresh, message>>, closeRow' \in BOOLEAN
  PROVE  RowTypes' /\ RunTypes'
<1>1. pc' \in {"sell", "send", "finish"}
  BY DEF Withdrawn, AfterWithdraw, AfterSwap
<1>2. out' \in BOOLEAN
  BY Parts DEF Withdrawn, RunTypes
<1> QED BY <1>1, <1>2, Parts DEF Withdrawn, RowTypes, RunTypes, Steps, Places, ChunkFits

(* Every variable keeps its type.                                           *)
LEMMA TypeStep == TInv /\ [Next]_vars => TInv'
<1> SUFFICES ASSUME TInv, [Next]_vars PROVE WorldTypes' /\ RowTypes' /\ RunTypes'
  BY Parts DEF TInv, TypeOK, WorldTypes, RowTypes, RunTypes, Places, ChunkFits
<1>a. WorldTypes /\ RowTypes /\ RunTypes
  BY Parts
<1> USE <1>a
<1>1. CASE Trigger
  BY <1>1, SameWorld DEF Trigger, poolVars, rowVars, bookVars, RowTypes, RunTypes, ChunkFits, Places, Awaits
<1>2. CASE StartExit
  BY <1>2, SameWorld DEF StartExit, bookVars, RowTypes, RunTypes, ChunkFits, Places, Steps
<1>3. CASE ManualWithdraw
  BY <1>3 DEF ManualWithdraw, rowVars, bookVars, runVars, history, WorldTypes, RowTypes, RunTypes, ChunkFits
<1>4. CASE WindowPasses
  BY <1>4, SameWorld DEF WindowPasses, poolVars, rowVars, bookVars, runVars, RowTypes, RunTypes, ChunkFits
<1>5. CASE Resume
  <2>1. pc' \in {"withdraw", "sell", "send", "finish"}
    BY <1>5 DEF Resume, ResumeAt, Incomplete, AfterWithdraw, AfterSwap, RowTypes, Steps
  <2>2. WorldTypes' /\ RowTypes'
    BY <1>5, SameWorld DEF Resume, poolVars, rowVars, bookVars, RowTypes
  <2>3. RunTypes'
    BY <1>5, <2>1 DEF Resume, RowTypes, RunTypes, ChunkFits, Places
  <2> QED BY <2>2, <2>3
<1>6. CASE StepWithdraw
  <2>1. WorldTypes' /\ UNCHANGED <<setup, bookVars, fresh, message>>
    BY <1>6, SameWorld DEF StepWithdraw
  <2>2. ASSUME NEW c \in [Sides -> Nat], Withdrawn(c), UNCHANGED drainTx
        PROVE  RowTypes' /\ RunTypes'
    <3>1. drainTx' \in BOOLEAN /\ closeRow' \in BOOLEAN
      BY <2>1, <2>2 DEF RunTypes, RowTypes, bookVars
    <3> QED BY <2>1, <2>2, <3>1, WithdrawnTypes DEF bookVars
  <2>3. CASE pc' = "claim" /\ coins' = Zero /\ UNCHANGED <<poolVars, rowVars, usdc, side, left, chunk, drainTx, out>>
    BY <2>1, <2>3, ZeroTyped DEF poolVars, rowVars, bookVars, RowTypes, RunTypes, ChunkFits, Places, Awaits
  <2>4. rec \in [Sides -> Nat]
    BY DEF RowTypes
  <2> QED BY <1>6, <2>1, <2>2, <2>3, <2>4, ZeroTyped DEF StepWithdraw
<1>7. CASE Claim
  <2>1. WorldTypes'
    BY <1>7, EffectTypes, SameWorld DEF Claim, Effect
  <2>2. coins' \in [Sides -> Nat]
    BY <1>7 DEF Claim, RunTypes, WorldTypes
  <2>3. RowTypes'
    BY <1>7 DEF Claim, RowTypes, poolVars, rowVars, bookVars
  <2> QED BY <1>7, <2>1, <2>2, <2>3 DEF Claim, RunTypes, ChunkFits, Places, Awaits
<1>8. CASE Decrease
  <2>1. WorldTypes'
    BY <1>8, EffectTypes, SameWorld DEF Decrease, Effect
  <2>2. Plus(coins) \in [Sides -> Nat]
    BY ExitAssumption DEF Plus, RunTypes
  <2>3. coins' \in [Sides -> Nat] /\ drainTx' \in BOOLEAN
    BY <1>8, <2>2 DEF Decrease, RunTypes
  <2>4. RowTypes'
    BY <1>8 DEF Decrease, RowTypes, poolVars, rowVars, bookVars
  <2> QED BY <1>8, <2>1, <2>3, <2>4 DEF Decrease, RunTypes, ChunkFits, Places, Awaits
<1>9. CASE Burn
  <2>1. WorldTypes'
    BY <1>9, EffectTypes DEF Burn, Effect
  <2> QED BY <1>9, <2>1 DEF Burn, RowTypes, RunTypes, ChunkFits, Places, Awaits, poolVars, rowVars, bookVars
<1>10. CASE Book
  <2>1. WorldTypes'
    BY <1>10, SameWorld DEF Book
  <2>2. coins \in [Sides -> Nat] /\ drainTx' \in BOOLEAN
    BY <1>10 DEF Book, RunTypes
  <2> QED BY <1>10, <2>1, <2>2, WithdrawnTypes DEF Book
<1>11. CASE MarkClosed
  <2>1. WorldTypes'
    BY <1>11, SameWorld DEF MarkClosed
  <2>2. coins \in [Sides -> Nat] /\ drainTx' \in BOOLEAN /\ closeRow' \in BOOLEAN
    BY <1>11 DEF MarkClosed, RunTypes, RowTypes, bookVars
  <2> QED BY <1>11, <2>1, <2>2, WithdrawnTypes DEF MarkClosed, bookVars
<1>12. CASE Rescue
  <2>1. WorldTypes'
    BY <1>12, EffectTypes, SameWorld DEF Rescue, Effect
  <2>2. RowTypes'
    BY <1>12 DEF Rescue, RowTypes, RunTypes, Steps, poolVars
  <2> QED BY <1>12, <2>1, <2>2 DEF Rescue, RunTypes, ChunkFits, Places, Awaits
<1>13. CASE Sell
  <2>1. SellAmount \in Nat
    BY CapNat DEF SellAmount, Sells, Least, Mints, Sides, RunTypes, WorldTypes
  <2>2. WorldTypes' /\ RowTypes'
    BY <1>13, SameWorld DEF Sell, poolVars, rowVars, bookVars, RowTypes
  <2>3. CASE SellAmount > 0
    <3>1. /\ pc' = "swap" /\ left' = SellAmount /\ UNCHANGED <<side, coins, usdc, drainTx, out>>
          /\ chunk' = SellAmount \/ chunk' = 1
      BY <1>13, <2>1, <2>3 DEF Sell, ChunkSizes
    <3> QED BY <2>1, <2>2, <2>3, <3>1 DEF RunTypes, ChunkFits, Places, Awaits
  <2>4. CASE SellAmount = 0
    BY <1>13, <2>2, <2>4 DEF Sell, RunTypes, ChunkFits, Places, Sides
  <2> QED BY <2>1, <2>3, <2>4
<1>14. CASE Swap
  <2>1. WorldTypes'
    BY <1>14, EffectTypes DEF Swap, Effect
  <2>2. RowTypes'
    BY <1>14 DEF Swap, RowTypes, poolVars, rowVars, bookVars
  <2> QED BY <1>14, <2>1, <2>2 DEF Swap, RunTypes, ChunkFits, Places, Sides
<1>15. CASE EndSwap
  <2>1. Total \in Nat
    BY DEF Total, RunTypes, Sides
  <2>2. WorldTypes' /\ RowTypes'
    BY <1>15, <2>1, SameWorld DEF EndSwap, RowTypes, Steps, poolVars
  <2> QED BY <1>15, <2>1, <2>2 DEF EndSwap, AfterSwap, RunTypes, ChunkFits, Places, Sides
<1>16. CASE Send
  <2>1. SendAmount \in Nat
    BY DEF SendAmount, Least, Mints, RunTypes, WorldTypes
  <2>2. WorldTypes' /\ RowTypes'
    BY <1>16, SameWorld DEF Send, RowTypes, poolVars, rowVars, bookVars
  <2> QED BY <1>16, <2>1, <2>2 DEF Send, RunTypes, ChunkFits, Places, Awaits, Sides
<1>17. CASE Pay
  <2>1. WorldTypes'
    BY <1>17, EffectTypes DEF Pay, Effect
  <2>2. RowTypes'
    BY <1>17 DEF Pay, RowTypes, poolVars, rowVars, bookVars
  <2> QED BY <1>17, <2>1, <2>2 DEF Pay, RunTypes, ChunkFits, Places, Sides
<1>18. CASE EndTransfer
  BY <1>18, SameWorld DEF EndTransfer, RowTypes, RunTypes, ChunkFits, Places, Steps, poolVars, bookVars
<1>19. CASE Finish
  BY <1>19, SameWorld, Forgotten DEF Finish, RowTypes, Steps, poolVars, bookVars
<1>20. ASSUME Fail, UNCHANGED <<setup, poolVars, bookVars, fresh>> PROVE RowTypes' /\ RunTypes'
  BY <1>20, Forgotten DEF Fail, RowTypes, poolVars, bookVars
<1>21. ASSUME Die, UNCHANGED <<setup, poolVars, bookVars, fresh>> PROVE RowTypes' /\ RunTypes'
  BY <1>21, Forgotten DEF Die, RowTypes, poolVars, rowVars, bookVars
<1>22. CASE Refused
  BY <1>20, <1>22, SameWorld DEF Refused
<1>23. CASE Crash
  BY <1>21, <1>23, SameWorld DEF Crash
<1>24. CASE LandsUnseen
  BY <1>20, <1>21, <1>24, EffectTypes DEF LandsUnseen
<1>25. CASE UNCHANGED vars
  BY <1>25, SameWorld DEF vars, poolVars, rowVars, bookVars, runVars, RowTypes, RunTypes, ChunkFits
<1> QED BY <1>1, <1>2, <1>3, <1>4, <1>5, <1>6, <1>7, <1>8, <1>9, <1>10, <1>11, <1>12,
           <1>13, <1>14, <1>15, <1>16, <1>17, <1>18, <1>19, <1>22, <1>23, <1>24, <1>25
        DEF Next, Withdrawal, Proceed

LEMMA TypeInit == Init => TInv
<1> SUFFICES ASSUME Init PROVE WorldTypes /\ RowTypes /\ RunTypes
  BY Parts
<1>1. WorldTypes
  BY ExitAssumption, ZeroTyped DEF Init, WorldTypes
<1>2. RowTypes
  BY ZeroTyped DEF Init, RowTypes, Steps
<1>3. RunTypes
  BY ZeroTyped DEF Init, RunTypes, Places, Sides, ChunkFits
<1> QED BY <1>1, <1>2, <1>3

THEOREM TypedSpec == Spec => []TInv
BY TypeInit, TypeStep, PTL DEF Spec

(* Type correctness for every configuration and every fault.                *)
THEOREM Typing == Spec => []TypeOK
<1>1. TInv => TypeOK
  BY DEF TInv
<1> QED BY <1>1, TypedSpec, PTL

-----------------------------------------------------------------------------
(* Nothing is known before it is out.  Past the withdrawal the position is  *)
(* closed in the database, whatever happens to the run.                     *)
Past == {"sell", "swap", "swapped", "send", "pay", "transferred", "finish"}
EarlyInv == NeverKnownBeforeOut /\ (pc \in Past => ~dbOpen)

(* No effect puts anything back into the position.                          *)
LEMMA ReleasedGrows ==
  ASSUME TInv, Effect
  PROVE  \A s \in Sides : released'[s] \in Nat /\ released[s] <= released'[s]
<1>a. WorldTypes
  BY Parts
<1>1. CASE pc = "decrease" /\ DecreaseEffect
  <2>1. ASSUME NEW s \in Sides PROVE released[s] <= released[s] + Principal[s]
    BY <1>a, ExitAssumption DEF WorldTypes
  <2> QED BY <1>1, <2>1, <1>a, ExitAssumption DEF DecreaseEffect, WorldTypes
<1> QED BY <1>1, <1>a DEF Effect, ClaimEffect, BurnEffect, SwapEffect, PayEffect,
          history, WorldTypes

LEMMA EarlyStep == TInv /\ EarlyInv /\ [Next]_vars => EarlyInv'
<1> SUFFICES ASSUME TInv, EarlyInv, [Next]_vars PROVE EarlyInv'
  OBVIOUS
<1>a. WorldTypes /\ RowTypes /\ RunTypes
  BY Parts
<1>z. Zero \in [Sides -> Nat] /\ \A s \in Sides : Zero[s] = 0
  BY DEF Zero
<1>e. Effect => \A s \in Sides : released'[s] \in Nat /\ released[s] <= released'[s]
  BY ReleasedGrows
<1>k. ASSUME Effect \/ UNCHANGED released, UNCHANGED <<step, rec, dbOpen>>,
             \A s \in Sides : coins'[s] <= released'[s], pc' \in Past => pc \in Past
      PROVE  EarlyInv'
  <2>1. \A s \in Sides : rec[s] \in Nat /\ released[s] \in Nat /\ released'[s] \in Nat
                       /\ released[s] <= released'[s]
    BY <1>k, <1>e, <1>a DEF RowTypes, WorldTypes
  <2> QED BY <1>k, <2>1 DEF EarlyInv, NeverKnownBeforeOut
<1>f. ASSUME ForgetRun, Effect \/ UNCHANGED released, UNCHANGED <<step, rec, dbOpen>>
      PROVE  EarlyInv'
  <2>1. \A s \in Sides : released'[s] \in Nat
    BY <1>f, <1>e, <1>a DEF WorldTypes
  <2>2. coins' = Zero /\ pc' = "idle"
    BY <1>f DEF ForgetRun
  <2>3. \A s \in Sides : coins'[s] <= released'[s]
    BY <2>1, <2>2, <1>z
  <2> QED BY <1>f, <1>k, <2>2, <2>3 DEF Past
<1>w. ASSUME NEW c \in [Sides -> Nat], Withdrawn(c), UNCHANGED released,
             \A s \in Sides : c[s] <= released[s]
      PROVE  EarlyInv'
  BY <1>w DEF Withdrawn, EarlyInv, NeverKnownBeforeOut
<1>1. CASE Trigger \/ WindowPasses \/ UNCHANGED vars
  BY <1>1, <1>k DEF Trigger, WindowPasses, vars, rowVars, poolVars, runVars, history,
        EarlyInv, NeverKnownBeforeOut, Past
<1>2. CASE StartExit \/ ManualWithdraw
  BY <1>2 DEF StartExit, ManualWithdraw, rowVars, runVars, history, EarlyInv,
        NeverKnownBeforeOut, Past
<1>3. CASE Resume
  <2>1. pc' \in Past => step \notin {"none", "preparing", "drained"}
    BY <1>3, <1>a DEF Resume, ResumeAt, Incomplete, RowTypes, Steps, Past
  <2> QED BY <1>3, <2>1 DEF Resume, rowVars, poolVars, history, EarlyInv, NeverKnownBeforeOut
<1>4. CASE StepWithdraw
  <2>1. \A s \in Sides : rec[s] <= released[s] /\ Zero[s] <= released[s]
    BY <1>z, <1>a DEF EarlyInv, NeverKnownBeforeOut, WorldTypes
  <2>2. CASE pc' = "claim" /\ coins' = Zero /\ UNCHANGED <<poolVars, rowVars>>
    BY <1>4, <1>k, <2>1, <2>2 DEF StepWithdraw, poolVars, rowVars, history, Past
  <2>3. rec \in [Sides -> Nat] /\ UNCHANGED released
    BY <1>4, <1>a DEF StepWithdraw, RowTypes, history
  <2>4. CASE Withdrawn(rec)
    BY <1>w, <2>1, <2>3, <2>4
  <2>5. CASE Withdrawn(Zero)
    BY <1>w, <1>z, <2>1, <2>3, <2>5
  <2> QED BY <1>4, <2>2, <2>4, <2>5 DEF StepWithdraw
<1>5. CASE Claim
  <2>1. /\ Effect \/ UNCHANGED released
        /\ UNCHANGED <<step, rec, dbOpen>> /\ pc' = "decrease"
    BY <1>5 DEF Claim, Effect, history, rowVars, poolVars
  <2>2. CASE ClaimEffect /\ coins' = [coins EXCEPT !["A"] = fees]
    <3>1. /\ released'["A"] = released["A"] + fees /\ released'["B"] = released["B"]
          /\ coins'["A"] = fees /\ coins'["B"] = coins["B"]
          /\ released["A"] \in Nat /\ fees \in Nat /\ coins["B"] <= released["B"]
      BY <2>2, <1>a DEF ClaimEffect, WorldTypes, RunTypes, Sides, EarlyInv, NeverKnownBeforeOut
    <3>2. \A s \in Sides : coins'[s] <= released'[s]
      BY <3>1 DEF Sides
    <3> QED BY <1>k, <2>1, <3>2 DEF Past
  <2>3. CASE UNCHANGED <<history, coins>>
    BY <1>k, <2>1, <2>3 DEF history, EarlyInv, NeverKnownBeforeOut, Past
  <2> QED BY <1>5, <2>2, <2>3 DEF Claim
<1>6. CASE Decrease
  <2>1. /\ Effect \/ UNCHANGED released
        /\ UNCHANGED <<step, rec, dbOpen>> /\ pc' = "burn"
    BY <1>6 DEF Decrease, Effect, history, rowVars, poolVars
  <2>2. CASE DecreaseEffect /\ coins' = Plus(coins)
    <3>1. ASSUME NEW s \in Sides PROVE coins'[s] <= released'[s]
      <4>1. /\ coins'[s] = coins[s] + Principal[s] /\ released'[s] = released[s] + Principal[s]
            /\ coins[s] <= released[s]
        BY <2>2 DEF DecreaseEffect, Plus, EarlyInv, NeverKnownBeforeOut
      <4>2. coins[s] \in Nat /\ released[s] \in Nat /\ Principal[s] \in Nat
        BY <1>a, ExitAssumption DEF RunTypes, WorldTypes
      <4> QED BY <4>1, <4>2
    <3> QED BY <1>k, <2>1, <3>1 DEF Past
  <2>3. CASE UNCHANGED <<history, coins>>
    BY <1>k, <2>1, <2>3 DEF history, EarlyInv, NeverKnownBeforeOut, Past
  <2> QED BY <1>6, <2>2, <2>3 DEF Decrease
<1>7. CASE Burn \/ Sell \/ Swap \/ Send \/ Pay
  BY <1>7, <1>k DEF Burn, Sell, Swap, Send, Pay, Effect, BurnEffect, SwapEffect, PayEffect,
        history, rowVars, poolVars, EarlyInv, NeverKnownBeforeOut, Past
<1>8. CASE Book \/ MarkClosed
  <2>1. coins \in [Sides -> Nat] /\ Withdrawn(coins) /\ UNCHANGED released
    BY <1>8, <1>a DEF Book, MarkClosed, history, RunTypes
  <2> QED BY <1>w, <2>1 DEF EarlyInv, NeverKnownBeforeOut
<1>9. CASE Rescue
  BY <1>9 DEF Rescue, BurnEffect, history, poolVars, EarlyInv, NeverKnownBeforeOut, Past
<1>10. CASE EndSwap \/ EndTransfer
  BY <1>10 DEF EndSwap, EndTransfer, history, poolVars, EarlyInv, NeverKnownBeforeOut, Past
<1>11. CASE Finish
  <2>1. coins' = Zero /\ pc' = "idle" /\ ~dbOpen /\ UNCHANGED <<rec, dbOpen, released>>
    BY <1>11 DEF Finish, ForgetRun, history, poolVars, EarlyInv, Past
  <2> QED BY <2>1, <1>z, <1>a DEF EarlyInv, NeverKnownBeforeOut, Past, WorldTypes
<1>12. CASE Refused \/ Crash \/ LandsUnseen
  BY <1>12, <1>f DEF Refused, Crash, LandsUnseen, Fail, Die, rowVars, poolVars, history
<1> QED BY <1>1, <1>2, <1>3, <1>4, <1>5, <1>6, <1>7, <1>8, <1>9, <1>10, <1>11, <1>12
        DEF Next, Withdrawal, Proceed

LEMMA EarlySpec == Spec => []EarlyInv
<1>1. Init => EarlyInv
  BY DEF Init, EarlyInv, NeverKnownBeforeOut, Zero, Past
<1> QED BY <1>1, TypedSpec, EarlyStep, PTL DEF Spec

(* Whatever crashes or lands unseen, nothing is recorded as taken out       *)
(* before it was, and a row past the withdrawal means a closed position.    *)
THEOREM NeverEarly == Spec => []NeverKnownBeforeOut
<1>1. EarlyInv => NeverKnownBeforeOut
  BY DEF EarlyInv
<1> QED BY <1>1, EarlySpec, PTL

-----------------------------------------------------------------------------
(* Capital out of the position is known.                                    *)

Nothing == released["A"] = 0 /\ released["B"] = 0
Same(c) == c["A"] = released["A"] /\ c["B"] = released["B"]

KnownInv ==
  /\ fees = 0
  /\ pc \in {"wait"} => step = "none"
  /\ pc \in {"claim", "decrease", "burn", "book"} => step = "preparing"
  /\ pc = "markClosed" => step = "drained"
  /\ pc = "withdraw" => step \in {"preparing", "drained"}
  /\ pc \in Past => step \in CapitalOutSteps
  /\ step \in {"none", "preparing"} /\ pc \notin {"burn", "book"} => Nothing
  /\ pc \in {"burn", "book", "markClosed"} => Same(coins)
  /\ pc = "decrease" => coins["A"] = 0 /\ coins["B"] = 0
  /\ pc = "claim" => coins["A"] = 0 /\ coins["B"] = 0
  /\ pc = "burn" /\ ~drainTx => Nothing
  /\ step \in CapitalOutSteps \cup {"complete"} => Same(rec)

LEMMA KnownStep ==
  Undisturbed => (TInv /\ KnownInv /\ [Next]_vars => KnownInv')
<1> SUFFICES ASSUME Undisturbed, TInv, KnownInv, [Next]_vars PROVE KnownInv'
  OBVIOUS
<1>a. WorldTypes /\ RowTypes /\ RunTypes
  BY Parts
<1>n. KnownInv /\ step \in Steps
  BY <1>a DEF RowTypes
<1> USE <1>n DEF KnownInv, Nothing, Same, Past, CapitalOutSteps
<1>w. ASSUME NEW c, Withdrawn(c), UNCHANGED <<fees, released>>, Same(c)
      PROVE  KnownInv'
  BY <1>w DEF Withdrawn, AfterWithdraw, AfterSwap
<1>1. CASE Trigger \/ WindowPasses \/ UNCHANGED vars
  BY <1>1 DEF Trigger, WindowPasses, vars, chainVars, rowVars, runVars, history
<1>2. CASE StartExit \/ ManualWithdraw
  BY <1>2 DEF StartExit, ManualWithdraw, chainVars, rowVars, runVars, history
<1>3. CASE Resume
  <2>1. /\ step \in CapitalOutSteps \cup {"preparing"}
        /\ pc' \in {"withdraw"} \cup Past
        /\ pc' = "withdraw" => step \in {"preparing", "drained"}
        /\ pc' \in Past => step \in CapitalOutSteps
    BY <1>3 DEF Resume, ResumeAt, Incomplete, AfterWithdraw, AfterSwap, Steps
  <2>2. UNCHANGED <<fees, step, rec, released>> /\ pc = "idle"
    BY <1>3 DEF Resume, chainVars, rowVars, history
  <2> QED BY <2>1, <2>2
<1>4. CASE StepWithdraw
  <2>1. UNCHANGED <<fees, released>> /\ pc = "withdraw"
    BY <1>4 DEF StepWithdraw, chainVars, history
  <2>2. CASE step = "drained" /\ Withdrawn(rec)
    BY <1>w, <2>1, <2>2
  <2>3. CASE step # "drained" /\ Withdrawn(Zero)
    <3>1. Same(Zero)
      BY <2>1, <2>3 DEF Zero, Sides
    <3> QED BY <1>w, <2>1, <2>3, <3>1
  <2>4. CASE step # "drained" /\ pc' = "claim" /\ coins' = Zero /\ UNCHANGED rowVars
    BY <2>1, <2>4 DEF Zero, Sides, rowVars
  <2> QED BY <1>4, <2>2, <2>3, <2>4 DEF StepWithdraw
<1>5. CASE Claim
  <2>1. /\ pc = "claim" /\ pc' = "decrease" /\ UNCHANGED <<step, rec>>
        /\ fees' = 0
        /\ coins'["A"] = 0 /\ coins'["B"] = 0
        /\ released'["A"] = released["A"] /\ released'["B"] = released["B"]
    BY <1>5, <1>a DEF Claim, ClaimEffect, chainVars, history, rowVars, WorldTypes, RunTypes, Sides
  <2> QED BY <2>1
<1>6. CASE Decrease
  <2>1. /\ pc = "decrease" /\ pc' = "burn" /\ UNCHANGED <<step, rec, fees>>
    BY <1>6 DEF Decrease, DecreaseEffect, chainVars, rowVars
  <2>2. CASE DecreaseEffect /\ drainTx' = TRUE /\ coins' = Plus(coins)
    BY <2>1, <2>2 DEF DecreaseEffect, Plus, Sides
  <2>3. CASE UNCHANGED <<history, drainTx, coins>>
    BY <2>1, <2>3 DEF history
  <2> QED BY <1>6, <2>2, <2>3 DEF Decrease
<1>7. CASE Burn
  BY <1>7 DEF Burn, BurnEffect, history, rowVars
<1>8. CASE Book \/ MarkClosed
  <2>1. Withdrawn(coins) /\ UNCHANGED <<fees, released>> /\ Same(coins)
    BY <1>8 DEF Book, MarkClosed, chainVars, history
  <2> QED BY <1>w, <2>1
<1>9. CASE Rescue
  BY <1>9 DEF Rescue, BurnEffect, chainVars, history, Undisturbed
<1>10. CASE Sell \/ Send
  BY <1>10 DEF Sell, Send, chainVars, history, rowVars
<1>11. CASE Swap \/ Pay
  BY <1>11 DEF Swap, SwapEffect, Pay, PayEffect, chainVars, rowVars
<1>12. CASE EndSwap \/ EndTransfer
  BY <1>12 DEF EndSwap, AfterSwap, EndTransfer, chainVars, history
<1>13. CASE Finish
  BY <1>13 DEF Finish, ForgetRun, chainVars, history
<1>14. CASE Refused
  <2>1. pc \in Legs /\ ~(pc = "burn" /\ drainTx) /\ pc' = "idle"
        /\ UNCHANGED <<step, rec, fees, released>>
    BY <1>14 DEF Refused, Fail, ForgetRun, chainVars, history
  <2> QED BY <2>1 DEF Legs
<1>15. CASE Crash
  <2>1. pc \notin {"burn", "book"} /\ pc' = "idle" /\ UNCHANGED <<step, rec, fees, released>>
    BY <1>15 DEF Crash, Die, ForgetRun, chainVars, history, rowVars, Undisturbed
  <2> QED BY <2>1
<1>16. CASE LandsUnseen
  BY <1>16 DEF LandsUnseen, Undisturbed
<1> QED BY <1>1, <1>2, <1>3, <1>4, <1>5, <1>6, <1>7, <1>8, <1>9, <1>10, <1>11, <1>12,
           <1>13, <1>14, <1>15, <1>16 DEF Next, Withdrawal, Proceed

LEMMA SameSetup == [Next]_vars => UNCHANGED setup
BY DEF Next, vars, Trigger, StartExit, Resume, ManualWithdraw, Withdrawal, Proceed, StepWithdraw,
       Claim, Decrease, Burn, Book, Rescue, MarkClosed, Sell, Swap, EndSwap, Send, Pay,
       EndTransfer, Finish, Refused, LandsUnseen, Crash, WindowPasses

LEMMA KnownSpec == Spec => [](Undisturbed => KnownInv)
<1> DEFINE I == Undisturbed => KnownInv
<1>1. Init => I
  BY DEF Undisturbed, Init, KnownInv, Nothing, Same, Past, CapitalOutSteps, Zero, Sides
<1>2. TInv /\ I /\ [Next]_vars => I'
  <2>1. [Next]_vars /\ Undisturbed' => Undisturbed
    BY SameSetup DEF Undisturbed
  <2> QED BY <2>1, KnownStep
<1> HIDE DEF I
<1>3. Spec => []I
  BY <1>1, <1>2, TypedSpec, PTL DEF Spec
<1> QED BY <1>3 DEF I

(* If closePosition() is not interrupted, no landing is missed and no fees  *)
(* are open (Undisturbed), capital that has left the position is known to   *)
(* the row whenever no run is at work.                                      *)
THEOREM KnownCapital == Spec => []CapitalKnown
<1>1. TInv /\ (Undisturbed => KnownInv) => CapitalKnown
  <2> SUFFICES ASSUME TInv, KnownInv, pc = "idle", TotalReleased > 0
               PROVE  step \in CapitalOutSteps \cup {"complete"} /\ rec = released
    BY DEF CapitalKnown
  <2>1. WorldTypes /\ RowTypes
    BY Parts
  <2>2. ~Nothing
    BY DEF TotalReleased, Nothing
  <2>3. step \in CapitalOutSteps \cup {"complete"}
    BY <2>1, <2>2 DEF KnownInv, RowTypes, Steps, CapitalOutSteps
  <2>4. rec["A"] = released["A"] /\ rec["B"] = released["B"]
    BY <2>3 DEF KnownInv, Same
  <2>5. rec = released
    BY <2>1, <2>4 DEF RowTypes, WorldTypes, Sides
  <2> QED BY <2>3, <2>5
<1> QED BY <1>1, KnownSpec, TypedSpec, PTL

-----------------------------------------------------------------------------
(* Where the run is, whatever happens: how far the row has come at each     *)
(* place, and that each step of the run starts with token A.                *)
Withdrawing == {"withdraw", "claim", "decrease", "burn", "book", "markClosed"}
Sending == {"send", "pay", "transferred"}

OrderInv ==
  /\ pc = "wait" => step = "none"
  /\ pc \in Withdrawing => step \in {"preparing", "drained"}
  /\ pc \in Selling => step = "withdrawn" /\ cfg.autoSwap
  /\ pc \in Sending =>
       cfg.sendTo /\ step = (IF cfg.autoSwap THEN "swapped" ELSE "withdrawn")
  /\ pc = "finish" => step = (IF cfg.sendTo THEN "transferred"
                              ELSE IF cfg.autoSwap THEN "swapped" ELSE "withdrawn")
  /\ step = "swapped" => cfg.autoSwap
  /\ step = "transferred" => cfg.sendTo
  /\ pc \notin Selling \cup Sending \cup {"finish"} => side = "A"

LEMMA OrderStep == TInv /\ OrderInv /\ [Next]_vars => OrderInv'
<1> SUFFICES ASSUME TInv, OrderInv, [Next]_vars PROVE OrderInv'
  OBVIOUS
<1>a. WorldTypes /\ RowTypes /\ RunTypes
  BY Parts
<1>n. /\ step \in Steps /\ pc \in Places /\ side \in Sides
      /\ around.crashAt \subseteq Awaits
  BY <1>a, ExitAssumption DEF RowTypes, RunTypes
<1> USE <1>n DEF OrderInv, Withdrawing, Selling, Sending, Sides
<1>f. ASSUME ForgetRun, UNCHANGED <<cfg, step>> PROVE OrderInv'
  BY <1>f DEF ForgetRun
<1>w. ASSUME NEW c, Withdrawn(c), UNCHANGED cfg, pc \in Withdrawing PROVE OrderInv'
  BY <1>w DEF Withdrawn, AfterWithdraw, AfterSwap
<1>1. CASE Trigger \/ WindowPasses \/ UNCHANGED vars
  BY <1>1 DEF Trigger, WindowPasses, vars, rowVars, runVars
<1>2. CASE StartExit \/ ManualWithdraw
  BY <1>2 DEF StartExit, ManualWithdraw, rowVars, runVars
<1>3. CASE Resume
  BY <1>3 DEF Resume, ResumeAt, Incomplete, AfterWithdraw, AfterSwap, Steps, rowVars
<1>4. CASE StepWithdraw
  BY <1>4, <1>w DEF StepWithdraw, rowVars
<1>5. CASE Claim \/ Decrease \/ Burn
  BY <1>5 DEF Claim, Decrease, Burn, rowVars
<1>6. CASE Book \/ MarkClosed
  BY <1>6, <1>w DEF Book, MarkClosed
<1>7. CASE Rescue
  BY <1>7 DEF Rescue
<1>8. CASE Sell \/ Swap
  BY <1>8 DEF Sell, Swap, rowVars
<1>9. CASE EndSwap
  BY <1>9 DEF EndSwap, AfterSwap
<1>10. CASE Send \/ Pay
  BY <1>10 DEF Send, Pay, rowVars
<1>11. CASE EndTransfer
  BY <1>11 DEF EndTransfer
<1>12. CASE Finish
  BY <1>12 DEF Finish, ForgetRun
<1>13. CASE Refused \/ Crash \/ LandsUnseen
  BY <1>13, <1>f DEF Refused, Crash, LandsUnseen, Fail, Die, rowVars
<1> QED BY <1>1, <1>2, <1>3, <1>4, <1>5, <1>6, <1>7, <1>8, <1>9, <1>10, <1>11, <1>12, <1>13
        DEF Next, Withdrawal, Proceed

LEMMA OrderSpec == Spec => []OrderInv
<1>1. Init => OrderInv
  BY DEF Init, OrderInv, Withdrawing, Selling, Sending
<1> QED BY <1>1, TypedSpec, OrderStep, PTL DEF Spec

-----------------------------------------------------------------------------
(* What a log message means.                                                *)

(* A message in the log belongs to a run that moved nothing, and a run past *)
(* the withdrawal knows whether capital is out.                             *)
Logged == message = "log" => pc = "idle" /\ step # "none" /\ Nothing
Aware == pc \in Past /\ ~out => Nothing

LEMMA AwareStep ==
  Undisturbed =>
    (TInv /\ OrderInv /\ KnownInv /\ Logged /\ Aware /\ [Next]_vars => Logged' /\ Aware')
<1> SUFFICES ASSUME Undisturbed, TInv, OrderInv, KnownInv, Logged, Aware, [Next]_vars
             PROVE  Logged' /\ Aware'
  OBVIOUS
<1>a. WorldTypes /\ RowTypes /\ RunTypes
  BY Parts
<1>n. /\ step \in Steps /\ pc \in Places /\ fees = 0
      /\ released["A"] \in Nat /\ released["B"] \in Nat
  BY <1>a DEF RowTypes, RunTypes, WorldTypes, KnownInv, Sides
<1>k. KnownInv
  OBVIOUS
<1> USE <1>n DEF Logged, Aware, Nothing
<1>f. ASSUME ForgetRun, UNCHANGED <<step, released>>, message' = "none" PROVE Logged' /\ Aware'
  BY <1>f DEF ForgetRun, Past
<1>w. ASSUME NEW c, Withdrawn(c), UNCHANGED <<released, message>>, Same(c), pc # "idle"
      PROVE  Logged' /\ Aware'
  <2>1. ~out' => ~(c["A"] > 0) /\ ~(c["B"] > 0)
    BY <1>w DEF Withdrawn
  <2>2. ~out' => Nothing'
    BY <1>w, <2>1 DEF Same
  <2> QED BY <1>w, <2>2
<1>1. CASE Trigger \/ WindowPasses \/ UNCHANGED vars
  BY <1>1 DEF Trigger, WindowPasses, vars, rowVars, runVars, history, Past
<1>2. CASE StartExit \/ ManualWithdraw
  BY <1>2, <1>k DEF StartExit, ManualWithdraw, rowVars, runVars, history, Past, KnownInv
<1>3. CASE Resume
  BY <1>3, <1>k DEF Resume, ResumeAt, Incomplete, AfterWithdraw, AfterSwap, Steps, rowVars,
        history, Past, CapitalOutSteps
<1>4. CASE StepWithdraw
  <2>1. /\ pc = "withdraw" /\ UNCHANGED <<released, message>>
        /\ step \in {"preparing", "drained"}
    BY <1>4, <1>k DEF StepWithdraw, history, KnownInv
  <2>2. CASE step = "drained" /\ Withdrawn(rec)
    <3>1. Same(rec)
      BY <2>2, <1>k DEF KnownInv, CapitalOutSteps
    <3> QED BY <1>w, <2>1, <2>2, <3>1
  <2>3. CASE step # "drained" /\ Withdrawn(Zero)
    <3>1. Same(Zero)
      BY <2>1, <2>3, <1>k DEF Zero, Sides, Same, KnownInv
    <3> QED BY <1>w, <2>1, <2>3, <3>1
  <2>4. CASE pc' = "claim"
    BY <2>1, <2>4 DEF Past
  <2> QED BY <1>4, <2>2, <2>3, <2>4 DEF StepWithdraw
<1>5. CASE Claim \/ Decrease \/ Burn \/ Rescue
  BY <1>5 DEF Claim, Decrease, Burn, Rescue, Past
<1>6. CASE Book \/ MarkClosed
  <2>1. Same(coins) /\ pc # "idle"
    BY <1>6, <1>k DEF Book, MarkClosed, KnownInv
  <2> QED BY <1>6, <1>w, <2>1 DEF Book, MarkClosed, history
<1>7. CASE Sell \/ Swap \/ EndSwap \/ Send \/ Pay \/ EndTransfer
  BY <1>7 DEF Sell, Swap, SwapEffect, EndSwap, Send, Pay, PayEffect, EndTransfer, history, Past
<1>8. CASE Finish
  BY <1>8, <1>f DEF Finish, ForgetRun, history, Past
<1>9. CASE Refused
  <2>1. /\ pc \in Legs /\ ~(pc = "burn" /\ drainTx)
        /\ UNCHANGED <<step, released>> /\ pc' = "idle"
        /\ message' = IF out THEN "visible" ELSE "log"
    BY <1>9 DEF Refused, Fail, ForgetRun, history
  <2>2. message' = "log" => ~out
    BY <2>1
  <2>3. pc \in {"claim", "decrease", "burn"} => step = "preparing" /\ Nothing
    BY <2>1, <1>k DEF KnownInv
  <2>4. pc \in {"swap", "pay"} /\ ~out => step # "none" /\ Nothing
    BY <1>k DEF KnownInv, Past, CapitalOutSteps
  <2> QED BY <2>1, <2>2, <2>3, <2>4 DEF Legs, Past
<1>10. CASE Crash
  BY <1>10, <1>f DEF Crash, Die, rowVars, history
<1>11. CASE LandsUnseen
  BY <1>11 DEF LandsUnseen, Undisturbed
<1> QED BY <1>1, <1>2, <1>3, <1>4, <1>5, <1>6, <1>7, <1>8, <1>9, <1>10, <1>11
        DEF Next, Withdrawal, Proceed

(* Under the same conditions, a failure that is only logged                 *)
(* (notifyExitFailure) has moved nothing.                                   *)
THEOREM LogIsHarmless == Spec => []LogMeansNothingMoved
<1> DEFINE I == Undisturbed => Logged /\ Aware
           K == Undisturbed => KnownInv
<1>1. Init => I
  BY DEF Init, Logged, Aware, Past
<1>2. TInv /\ OrderInv /\ K /\ I /\ [Next]_vars => I'
  <2>1. [Next]_vars /\ Undisturbed' => Undisturbed
    BY SameSetup DEF Undisturbed
  <2> QED BY <2>1, AwareStep
<1>3. I => LogMeansNothingMoved
  BY DEF Logged, Nothing, LogMeansNothingMoved, TotalReleased
<1>4. Spec => []K
  BY KnownSpec
<1> HIDE DEF I, K
<1> QED BY <1>1, <1>2, <1>3, <1>4, TypedSpec, OrderSpec, PTL DEF Spec

-----------------------------------------------------------------------------
(* No sale goes beyond the cap of what was released.                        *)

(* Nothing is sold before the swap step, and one amount of token A in it.   *)
Unsold == /\ step \in {"none", "preparing", "drained", "withdrawn"}
          /\ pc # "swapped" /\ ~(pc = "sell" /\ side = "B")

Early == {"none", "preparing", "drained", "withdrawn"}

SoldInv ==
  /\ sold["B"] = 0 /\ sold["A"] <= CapOf(released["A"])
  /\ Unsold => sold["A"] = 0
  /\ pc = "swap" => side = "A" /\ chunk = left /\ left <= CapOf(coins["A"])

SeenSale == OneSale /\ "swap" \notin around.unseen

LEMMA SoldStep ==
  SeenSale => (TInv /\ EarlyInv /\ OrderInv /\ SoldInv /\ [Next]_vars => SoldInv')
<1> SUFFICES ASSUME SeenSale, TInv, EarlyInv, OrderInv, SoldInv, [Next]_vars
             PROVE  SoldInv'
  OBVIOUS
<1>a. WorldTypes /\ RowTypes /\ RunTypes
  BY Parts
<1>n. /\ step \in Steps /\ pc \in Places /\ side \in Sides
      /\ around.crashAt \subseteq Awaits
      /\ sold["A"] \in Nat /\ sold["B"] \in Nat /\ released["A"] \in Nat
      /\ coins["A"] \in Nat /\ left \in Nat /\ chunk \in Nat
  BY <1>a, ExitAssumption DEF RowTypes, RunTypes, WorldTypes, Sides
<1>o. OrderInv
  OBVIOUS
<1> USE <1>n DEF SoldInv, Unsold
<1>e. Effect /\ pc # "swap" =>
        /\ UNCHANGED sold /\ released'["A"] \in Nat /\ released["A"] <= released'["A"]
        /\ CapOf(released["A"]) <= CapOf(released'["A"]) /\ CapOf(released'["A"]) \in Nat
  BY ReleasedGrows, CapGrows, CapNat DEF Effect, ClaimEffect, DecreaseEffect, BurnEffect,
     PayEffect, history, Sides
<1>p. CapOf(released["A"]) \in Nat /\ CapOf(coins["A"]) \in Nat
  BY CapNat
<1>h. UNCHANGED history => UNCHANGED sold /\ released'["A"] = released["A"]
  BY DEF history
<1>k. ASSUME (Effect /\ pc # "swap") \/ UNCHANGED history, Unsold' => Unsold, pc' # "swap"
      PROVE  SoldInv'
  BY <1>k, <1>e, <1>p, <1>h
<1>1. CASE Trigger \/ WindowPasses \/ UNCHANGED vars
  BY <1>1 DEF Trigger, WindowPasses, vars, rowVars, runVars, history
<1>2. CASE StartExit \/ ManualWithdraw
  BY <1>2, <1>k, <1>o DEF StartExit, ManualWithdraw, rowVars, runVars, OrderInv
<1>3. CASE Resume
  BY <1>3, <1>k, <1>o DEF Resume, ResumeAt, Incomplete, AfterWithdraw, AfterSwap, Steps, rowVars,
        OrderInv, Selling, Sending
<1>w. ASSUME NEW c, Withdrawn(c), UNCHANGED history, pc \in Withdrawing PROVE SoldInv'
  <2>1. Unsold /\ pc' # "swap"
    BY <1>w, <1>o DEF Withdrawn, AfterWithdraw, AfterSwap, OrderInv, Withdrawing
  <2> QED BY <1>w, <1>k, <2>1
<1>4. CASE StepWithdraw
  <2>1. UNCHANGED history /\ pc \in Withdrawing
    BY <1>4 DEF StepWithdraw, Withdrawing
  <2>2. CASE pc' = "claim" /\ UNCHANGED rowVars
    BY <2>1, <2>2, <1>k, <1>o DEF rowVars, OrderInv, Withdrawing
  <2> QED BY <1>4, <1>w, <2>1, <2>2 DEF StepWithdraw
<1>5. CASE Claim \/ Decrease \/ Burn
  <2>1. /\ (Effect /\ pc # "swap") \/ UNCHANGED history
        /\ pc \in Withdrawing /\ pc' # "swap" /\ UNCHANGED step
    BY <1>5 DEF Claim, Decrease, Burn, Effect, Withdrawing, rowVars
  <2> QED BY <2>1, <1>k, <1>o DEF OrderInv, Withdrawing
<1>6. CASE Book \/ MarkClosed
  BY <1>6, <1>w DEF Book, MarkClosed, Withdrawing
<1>7. CASE Rescue
  BY <1>7, <1>k, <1>o DEF Rescue, BurnEffect, OrderInv, Withdrawing
<1>8. CASE Sell
  <2>1. UNCHANGED <<history, step, coins>> /\ pc = "sell" /\ step = "withdrawn"
    BY <1>8, <1>o DEF Sell, rowVars, OrderInv, Selling
  <2>2. CASE SellAmount = 0
    <3>1. pc' # "swap" /\ (Unsold' => Unsold)
      BY <1>8, <2>1, <2>2 DEF Sell
    <3> QED BY <2>1, <3>1, <1>k
  <2>3. CASE SellAmount > 0
    <3>1. /\ side = "A" /\ side' = "A" /\ left' = SellAmount /\ chunk' = SellAmount
          /\ SellAmount <= CapOf(coins["A"]) /\ pc' = "swap"
      BY <1>8, <2>3, <1>o, <1>a, <1>p, CapNat DEF Sell, SellAmount, Sells, Least, ChunkSizes, SeenSale, OneSale,
         OrderInv, Selling, WorldTypes, Mints, Sides
    <3>2. Unsold
      BY <2>1, <3>1
    <3> QED BY <2>1, <3>1, <3>2, <1>h
  <2> QED BY <1>8, <2>2, <2>3 DEF Sell
<1>9. CASE Swap
  <2>1. /\ side = "A" /\ chunk = left /\ left <= CapOf(coins["A"]) /\ coins["A"] <= released["A"]
        /\ sold["A"] = 0 /\ pc = "swap" /\ UNCHANGED released
    BY <1>9, <1>o DEF Swap, SwapEffect, OrderInv, Selling, EarlyInv, NeverKnownBeforeOut, Sides
  <2>4. left <= CapOf(released["A"])
    BY <2>1, <1>p, CapGrows
  <2>2. sold'["A"] = chunk /\ sold'["B"] = 0
    BY <1>9, <1>a, <2>1 DEF Swap, SwapEffect, WorldTypes
  <2>3. ~Unsold' /\ pc' # "swap"
    BY <1>9, <2>1 DEF Swap
  <2> QED BY <2>1, <2>2, <2>3, <2>4
<1>10. CASE EndSwap \/ Send \/ EndTransfer
  BY <1>10, <1>k, <1>o DEF EndSwap, AfterSwap, Send, EndTransfer, rowVars, OrderInv, Sending
<1>11. CASE Pay
  <2>1. Effect /\ pc # "swap" /\ pc' # "swap" /\ (Unsold' => Unsold)
    BY <1>11 DEF Pay, Effect, rowVars
  <2> QED BY <2>1, <1>k
<1>12. CASE Finish
  BY <1>12, <1>k DEF Finish, ForgetRun
<1>13. CASE Refused \/ Crash \/ LandsUnseen
  <2>1. /\ pc' = "idle" /\ UNCHANGED step /\ pc \notin {"sell", "swapped"}
        /\ (Effect /\ pc # "swap") \/ UNCHANGED history
    BY <1>13 DEF Refused, Crash, LandsUnseen, Fail, Die, ForgetRun, rowVars, Legs, Awaits,
         SeenSale, Effect
  <2> QED BY <2>1, <1>k
<1> QED BY <1>1, <1>2, <1>3, <1>4, <1>5, <1>6, <1>7, <1>8, <1>9, <1>10, <1>11, <1>12, <1>13
        DEF Next, Withdrawal, Proceed

(* What a run has sold and is about to sell, whatever failed before it.     *)
RunInv ==
  /\ step \in Early => recUsdc = 0
  /\ pc \in Withdrawing \cup {"idle", "wait"} => usdc = 0
  /\ pc = "sell" /\ side = "A" => usdc = 0
  /\ pc = "sell" /\ side = "B" => usdc <= CapOf(coins["A"])
  /\ pc = "swap" /\ side = "A" => usdc + left <= CapOf(coins["A"])
  /\ pc = "swap" /\ side = "B" =>
       cfg.volatile /\ usdc + left <= CapOf(coins["A"]) + CapOf(coins["B"])
  /\ pc = "swapped" =>
       usdc <= CapOf(coins["A"]) + (IF cfg.volatile THEN CapOf(coins["B"]) ELSE 0)

LEMMA RunStep == TInv /\ OrderInv /\ RunInv /\ [Next]_vars => RunInv'
<1> SUFFICES ASSUME TInv, OrderInv, RunInv, [Next]_vars PROVE RunInv'
  OBVIOUS
<1>a. WorldTypes /\ RowTypes /\ RunTypes
  BY Parts
<1>n. /\ step \in Steps /\ pc \in Places /\ side \in Sides
      /\ around.crashAt \subseteq Awaits
      /\ coins["A"] \in Nat /\ coins["B"] \in Nat
      /\ left \in Nat /\ chunk \in Nat /\ usdc \in Nat
      /\ CapOf(coins["A"]) \in Nat /\ CapOf(coins["B"]) \in Nat
  BY <1>a, ExitAssumption, CapNat DEF RowTypes, RunTypes, Sides
<1>o. OrderInv
  OBVIOUS
<1> USE <1>n DEF RunInv, Early
<1>f. ASSUME ForgetRun, UNCHANGED <<step, recUsdc>> PROVE RunInv'
  BY <1>f DEF ForgetRun, Withdrawing
<1>w. ASSUME NEW c, Withdrawn(c), pc \in Withdrawing PROVE RunInv'
  <2>1. step \in {"preparing", "drained"} /\ side = "A"
    BY <1>w, <1>o DEF OrderInv, Withdrawing, Selling, Sending
  <2> QED BY <1>w, <2>1 DEF Withdrawn, AfterWithdraw, AfterSwap, Withdrawing
<1>1. CASE Trigger \/ WindowPasses \/ UNCHANGED vars
  BY <1>1 DEF Trigger, WindowPasses, vars, rowVars, runVars, Withdrawing
<1>2. CASE StartExit \/ ManualWithdraw
  BY <1>2, <1>o DEF StartExit, ManualWithdraw, rowVars, runVars, Withdrawing, OrderInv
<1>3. CASE Resume
  BY <1>3, <1>o DEF Resume, ResumeAt, Incomplete, AfterWithdraw, AfterSwap, Steps, rowVars,
        OrderInv, Selling, Sending, Withdrawing
<1>4. CASE StepWithdraw
  BY <1>4, <1>w DEF StepWithdraw, rowVars, Withdrawing
<1>5. CASE Claim \/ Decrease \/ Burn
  BY <1>5 DEF Claim, Decrease, Burn, rowVars, Withdrawing
<1>6. CASE Book \/ MarkClosed
  BY <1>6, <1>w DEF Book, MarkClosed, Withdrawing
<1>7. CASE Rescue
  BY <1>7, <1>o DEF Rescue, Withdrawing, OrderInv
<1>8. CASE Sell
  <2>1. /\ SellAmount \in Nat
        /\ SellAmount <= CapOf(coins[side])
        /\ SellAmount > 0 => side = "A" \/ cfg.volatile
    BY <1>a, CapNat DEF SellAmount, Sells, Least, WorldTypes, Mints, Sides
  <2> QED BY <1>8, <2>1 DEF Sell, Sides, rowVars, Withdrawing
<1>9. CASE Swap
  <2>1. chunk <= left
    BY <1>9, <1>a DEF Swap, RunTypes, ChunkFits
  <2> QED BY <1>9, <2>1 DEF Swap, rowVars, Withdrawing, Sides
<1>10. CASE EndSwap \/ Send \/ Pay \/ EndTransfer
  BY <1>10 DEF EndSwap, AfterSwap, Send, Pay, EndTransfer, rowVars, Withdrawing
<1>11. CASE Finish
  BY <1>11 DEF Finish, ForgetRun, Withdrawing
<1>12. CASE Refused \/ Crash \/ LandsUnseen
  BY <1>12, <1>f DEF Refused, Crash, LandsUnseen, Fail, Die, rowVars
<1> QED BY <1>1, <1>2, <1>3, <1>4, <1>5, <1>6, <1>7, <1>8, <1>9, <1>10, <1>11, <1>12
        DEF Next, Withdrawal, Proceed

(* No run of any exit sells more than what the position released and the    *)
(* tolerance of capToPosition(); nor do all its runs together, with one     *)
(* sale whose landing is not missed, whatever else fails.                   *)
THEOREM CappedSale == Spec => []SaleCapped
<1> DEFINE I == SeenSale => SoldInv
<1>1. Init => I
  BY CapNat DEF Init, SoldInv, Unsold, Zero, Sides
<1>2. TInv /\ EarlyInv /\ OrderInv /\ I /\ [Next]_vars => I'
  <2>1. [Next]_vars /\ SeenSale' => SeenSale
    BY SameSetup DEF SeenSale, OneSale
  <2> QED BY <2>1, SoldStep
<1>3. TInv /\ EarlyInv /\ RunInv /\ I => SaleCapped
  <2> SUFFICES ASSUME TInv, EarlyInv, RunInv, I PROVE SaleCapped
    OBVIOUS
  <2>1. ASSUME NEW s \in Sides
        PROVE  /\ CapOf(coins[s]) \in Nat /\ CapOf(released[s]) \in Nat
               /\ CapOf(coins[s]) <= CapOf(released[s])
    <3>1. coins[s] \in Nat /\ released[s] \in Nat /\ coins[s] <= released[s]
      BY Parts DEF WorldTypes, RunTypes, EarlyInv, NeverKnownBeforeOut
    <3> QED BY <3>1, CapNat, CapGrows
  <2>2. ASSUME pc \in Selling
        PROVE  SoldByRun <= CapOf(released["A"])
                              + (IF cfg.volatile THEN CapOf(released["B"]) ELSE 0)
    <3>1. usdc \in Nat /\ left \in Nat /\ side \in Sides
      BY Parts DEF RunTypes
    <3> QED BY <2>1, <2>2, <3>1 DEF SoldByRun, Selling, RunInv, Sides
  <2>3. SeenSale => \A s \in Sides : sold[s] <= CapOf(released[s])
    BY <2>1 DEF SoldInv, Sides
  <2> QED BY <2>2, <2>3 DEF SaleCapped, SeenSale
<1>4. Init => RunInv
  BY DEF Init, RunInv, Early, Withdrawing
<1> HIDE DEF I
<1> QED BY <1>1, <1>2, <1>3, <1>4, RunStep, TypedSpec, EarlySpec, OrderSpec, PTL DEF Spec

-----------------------------------------------------------------------------
(* What the exit earns, books and delivers.                                 *)

(* The exits of pairs with USDC that sell, in one transaction.              *)
OneSaleMode == Undisturbed /\ cfg.autoSwap /\ ~cfg.volatile /\ ~around.thin

Earnings == sold["A"] + released["B"]

(* The wallet holds what the position released, less what was sold or sent. *)
WalletInv ==
  /\ wallet["A"] + sold["A"] = Foreign + released["A"]
  /\ wallet["USDC"] + sent["USDC"] = Foreign + released["B"] + sold["A"]

(* The sale takes all of token A at once, and at most the tolerance more;   *)
(* its proceeds are the run's or the row's.                                 *)
SaleInv ==
  /\ pc \in Past => Same(coins)
  /\ sold["B"] = 0
  /\ Unsold => sold["A"] = 0
  /\ pc = "swap" =>
       side = "A" /\ chunk = left /\ coins["A"] <= left /\ left <= CapOf(coins["A"])
  /\ step \notin {"none", "preparing", "drained"} /\ ~Unsold =>
       released["A"] <= sold["A"] /\ sold["A"] <= CapOf(released["A"])
  /\ pc \in Withdrawing \cup {"idle", "wait"} => usdc = 0
  /\ pc \in Selling => usdc = sold["A"]
  /\ pc \in Sending => usdc = Earnings
  /\ step \in Early => recUsdc = 0
  /\ step \in Late => recUsdc = Earnings

(* Both bookings follow the step of the row.                                *)
BookInv ==
  /\ step \in Early => flow = 0 /\ closeUsd = 0
  /\ step \in Late => flow = Earnings
  /\ step \in CapitalOutSteps \cup {"complete"} => closeRow \/ Nothing
  /\ ~around.late => fresh
  /\ ~around.late /\ step \in Late /\ ~Nothing => closeUsd = Earnings

(* The receiver is paid once, between the send step of token A and that of  *)
(* token B.                                                                 *)
Unpaid == step \in Early \cup {"swapped"} /\ pc # "transferred" /\ ~(pc = "send" /\ side = "B")
PayInv ==
  /\ sent["A"] = 0 /\ sent["B"] = 0
  /\ ~cfg.sendTo \/ Unpaid => sent["USDC"] = 0
  /\ cfg.sendTo /\ ~Unpaid => sent["USDC"] = Earnings
  /\ pc = "pay" => side = "A" /\ left = usdc

Amounts ==
  /\ wallet["A"] \in Nat /\ wallet["USDC"] \in Nat /\ wallet \in [Mints -> Nat]
  /\ released["A"] \in Nat /\ released["B"] \in Nat /\ released \in [Sides -> Nat]
  /\ sold["A"] \in Nat /\ sold["B"] \in Nat /\ sold \in [Sides -> Nat]
  /\ sent["A"] \in Nat /\ sent["B"] \in Nat /\ sent["USDC"] \in Nat
  /\ sent \in [Mints -> Nat] /\ coins["A"] \in Nat /\ coins["B"] \in Nat
  /\ left \in Nat /\ chunk \in Nat /\ usdc \in Nat /\ recUsdc \in Nat
  /\ flow \in Nat /\ closeUsd \in Nat /\ Foreign \in Nat
  /\ Principal["A"] \in Nat /\ Principal["B"] \in Nat

Marks ==
  /\ step \in Steps /\ pc \in Places /\ side \in Sides
  /\ around.crashAt \subseteq Awaits

LEMMA Kinds == TInv => Amounts /\ Marks
BY Parts, ExitAssumption DEF WorldTypes, RowTypes, RunTypes, Amounts, Marks, Sides, Mints

LEMMA WalletStep ==
  OneSaleMode => (TInv /\ KnownInv /\ SaleInv /\ WalletInv /\ [Next]_vars => WalletInv')
<1> SUFFICES ASSUME OneSaleMode, TInv, KnownInv, SaleInv, WalletInv, [Next]_vars
             PROVE  WalletInv'
  OBVIOUS
<1>n. Amounts /\ Marks /\ fees = 0
  BY Kinds DEF KnownInv
<1>k. UNCHANGED <<wallet, history>> => WalletInv'
  BY DEF WalletInv, history
<1>1. CASE Claim /\ ClaimEffect
  <2>1. /\ wallet'["A"] = wallet["A"] /\ wallet'["USDC"] = wallet["USDC"]
        /\ released'["A"] = released["A"] /\ released'["B"] = released["B"]
        /\ UNCHANGED <<sold, sent>>
    BY <1>1, <1>n DEF ClaimEffect, Amounts, Sides, Mints
  <2> QED BY <2>1 DEF WalletInv
<1>2. CASE Decrease /\ DecreaseEffect
  <2>1. /\ wallet'["A"] = wallet["A"] + Principal["A"]
        /\ wallet'["USDC"] = wallet["USDC"] + Principal["B"]
        /\ released'["A"] = released["A"] + Principal["A"]
        /\ released'["B"] = released["B"] + Principal["B"]
        /\ UNCHANGED <<sold, sent>>
    BY <1>2, <1>n DEF DecreaseEffect, MintOf, OneSaleMode, Amounts, Sides, Mints
  <2> QED BY <2>1, <1>n DEF WalletInv, Amounts
<1>3. CASE Swap
  <2>1. /\ side = "A" /\ wallet["A"] >= chunk
        /\ wallet'["A"] = wallet["A"] - chunk /\ wallet'["USDC"] = wallet["USDC"] + chunk
        /\ sold'["A"] = sold["A"] + chunk /\ UNCHANGED <<released, sent>>
    BY <1>3, <1>n DEF Swap, SwapEffect, SaleInv, Amounts, Sides, Mints
  <2> QED BY <2>1, <1>n DEF WalletInv, Amounts
<1>4. CASE Pay
  <2>1. /\ wallet["USDC"] >= left
        /\ wallet'["A"] = wallet["A"] /\ wallet'["USDC"] = wallet["USDC"] - left
        /\ sent'["USDC"] = sent["USDC"] + left /\ UNCHANGED <<released, sold>>
    BY <1>4, <1>n DEF Pay, PayEffect, PayMint, OneSaleMode, Amounts, Mints
  <2> QED BY <2>1, <1>n DEF WalletInv, Amounts
<1>5. CASE Trigger \/ StartExit \/ Resume \/ ManualWithdraw \/ StepWithdraw \/ Burn \/ Book
           \/ Rescue \/ MarkClosed
  BY <1>5, <1>k DEF Trigger, StartExit, Resume, ManualWithdraw, StepWithdraw, Burn, BurnEffect,
        Book, Rescue, MarkClosed
<1>6. CASE Sell \/ EndSwap \/ Send \/ EndTransfer \/ Finish \/ Refused \/ Crash
           \/ WindowPasses \/ UNCHANGED vars
  BY <1>6, <1>k DEF Sell, EndSwap, Send, EndTransfer, Finish, Refused, Crash, WindowPasses, vars
<1>7. CASE LandsUnseen
  BY <1>7 DEF LandsUnseen, OneSaleMode, Undisturbed
<1>8. CASE Claim \/ Decrease
  BY <1>8, <1>k, <1>1, <1>2 DEF Claim, Decrease
<1> QED BY <1>3, <1>4, <1>5, <1>6, <1>7, <1>8 DEF Next, Withdrawal, Proceed

(* With all its coins in the wallet, the sale takes them all, and at most   *)
(* the tolerance more.                                                      *)
LEMMA SellsAll ==
  ASSUME OneSaleMode, TInv, WalletInv, SaleInv, pc = "sell", step = "withdrawn", side = "A"
  PROVE  /\ SellAmount \in Nat /\ ChunkSizes(SellAmount) = {SellAmount}
         /\ coins["A"] <= SellAmount /\ SellAmount <= CapOf(coins["A"])
<1>1. sold["A"] = 0 /\ coins["A"] = released["A"]
  BY DEF SaleInv, Unsold, Same, Past
<1>2. wallet["A"] >= coins["A"]
  BY <1>1, Kinds DEF WalletInv, Amounts
<1>3. coins["A"] \in Nat /\ wallet["A"] \in Nat
  BY Kinds DEF Amounts
<1>4. CapOf(coins["A"]) \in Nat /\ coins["A"] <= CapOf(coins["A"])
  BY <1>3, CapNat
<1>5. \/ SellAmount = coins["A"]
      \/ SellAmount = Least(wallet["A"], CapOf(coins["A"]))
  BY DEF SellAmount, Sells
<1> QED BY <1>2, <1>3, <1>4, <1>5 DEF ChunkSizes, OneSaleMode, Least

LEMMA SaleStep ==
  OneSaleMode =>
    (TInv /\ OrderInv /\ KnownInv /\ WalletInv /\ SaleInv /\ [Next]_vars => SaleInv')
<1> SUFFICES ASSUME OneSaleMode, TInv, OrderInv, KnownInv, WalletInv, SaleInv, [Next]_vars
             PROVE  SaleInv'
  OBVIOUS
<1>n. Amounts /\ Marks
  BY Kinds
<1>o. OrderInv /\ KnownInv /\ cfg.autoSwap /\ ~cfg.volatile
  BY DEF OneSaleMode
<1>c. step \in CapitalOutSteps \cup {"complete"} => Same(rec)
  BY <1>o DEF KnownInv
<1> USE DEF SaleInv, Unsold, Early, Late, Earnings, Same
<1>h. UNCHANGED history => UNCHANGED <<released, sold, sent>>
  BY DEF history
<1>1. CASE Trigger \/ StartExit \/ WindowPasses \/ UNCHANGED vars
  BY <1>1, <1>h, <1>n, <1>o DEF Trigger, StartExit, WindowPasses, vars, rowVars, runVars, Past,
        Withdrawing, Selling, Sending, OrderInv, Marks, Sides
<1>2. CASE ManualWithdraw
  BY <1>2, <1>h DEF ManualWithdraw, rowVars, runVars
<1>3. CASE Resume
  <2>1. /\ pc = "idle" /\ coins' = rec /\ usdc' = recUsdc
        /\ UNCHANGED <<step, recUsdc, released, sold, side>>
    BY <1>3, <1>h DEF Resume, rowVars
  <2>2. \/ pc' = "withdraw" /\ step \in {"preparing", "drained"}
        \/ pc' = "sell" /\ step = "withdrawn"
        \/ pc' = "send" /\ step = "swapped"
        \/ pc' = "finish" /\ step \in {"swapped", "transferred"}
    BY <1>3, <1>n, <1>o DEF Resume, ResumeAt, Incomplete, AfterWithdraw, AfterSwap, Steps, Marks
  <2>3. side = "A"
    BY <2>1, <1>o DEF OrderInv, Selling, Sending
  <2> QED BY <2>1, <2>2, <2>3, <1>c DEF Past, Withdrawing, Selling, Sending, CapitalOutSteps
<1>w. ASSUME NEW c, Withdrawn(c), UNCHANGED history, pc \in Withdrawing, Same(c)
      PROVE  SaleInv'
  <2>1. /\ side = "A" /\ step \in {"preparing", "drained"} /\ usdc = 0 /\ sold["A"] = 0
    BY <1>w, <1>o DEF OrderInv, Withdrawing, Selling, Sending
  <2>2. /\ pc' = "sell" /\ step' = "withdrawn" /\ coins' = c
        /\ UNCHANGED <<usdc, recUsdc, side, released, sold>>
    BY <1>w, <1>o, <1>h DEF Withdrawn, AfterWithdraw
  <2> QED BY <2>1, <2>2, <1>w DEF Past, Withdrawing, Selling, Sending
<1>4. CASE StepWithdraw
  <2>1. UNCHANGED history /\ pc = "withdraw" /\ step \in {"preparing", "drained"}
    BY <1>4, <1>o DEF StepWithdraw, OrderInv, Withdrawing
  <2>2. CASE step = "drained" /\ Withdrawn(rec)
    BY <1>c, <1>w, <2>1, <2>2 DEF Withdrawing, CapitalOutSteps
  <2>3. CASE step # "drained" /\ Withdrawn(Zero)
    <3>1. Same(Zero)
      BY <2>1, <2>3, <1>o DEF Zero, Sides, KnownInv, Nothing
    <3> QED BY <1>w, <2>1, <2>3, <3>1 DEF Withdrawing
  <2>4. CASE pc' = "claim" /\ UNCHANGED <<rowVars, usdc, side>>
    BY <2>1, <2>4, <1>h DEF rowVars, Past, Withdrawing, Selling, Sending
  <2> QED BY <1>4, <2>2, <2>3, <2>4 DEF StepWithdraw
<1>5. CASE Claim \/ Decrease \/ Burn
  <2>1. /\ pc \in Withdrawing /\ pc' \in {"decrease", "burn", "book"} /\ step = "preparing"
        /\ UNCHANGED <<step, recUsdc, usdc, side, sold>>
    BY <1>5, <1>h, <1>o DEF Claim, Decrease, Burn, ClaimEffect, DecreaseEffect, BurnEffect,
         rowVars, Withdrawing, KnownInv
  <2> QED BY <2>1 DEF Past, Withdrawing, Selling, Sending
<1>6. CASE Book \/ MarkClosed
  <2>1. Same(coins) /\ pc \in Withdrawing
    BY <1>6, <1>o DEF Book, MarkClosed, KnownInv, Withdrawing
  <2> QED BY <1>6, <2>1, <1>w DEF Book, MarkClosed
<1>7. CASE Rescue
  <2>1. /\ pc \in Withdrawing /\ pc' = "markClosed" /\ step = "preparing" /\ step' = "drained"
        /\ UNCHANGED <<recUsdc, usdc, side, sold>>
    BY <1>7, <1>h, <1>o DEF Rescue, BurnEffect, Withdrawing, KnownInv
  <2> QED BY <2>1 DEF Past, Withdrawing, Selling, Sending
<1>8. CASE Sell
  <2>1. /\ pc = "sell" /\ step = "withdrawn" /\ side \in Sides
        /\ UNCHANGED <<step, recUsdc, coins, usdc, released, sold>>
    BY <1>8, <1>h, <1>n, <1>o DEF Sell, rowVars, OrderInv, Selling, Marks
  <2>2. CASE side = "A"
    <3>1. /\ SellAmount \in Nat /\ ChunkSizes(SellAmount) = {SellAmount}
          /\ coins["A"] <= SellAmount /\ SellAmount <= CapOf(coins["A"])
      BY <2>1, <2>2, SellsAll
    <3>2. coins["A"] = released["A"] /\ sold["A"] = 0
      BY <2>1, <2>2 DEF Past
    <3>3. released["A"] \in Nat /\ CapOf(released["A"]) \in Nat
      BY <1>n, CapNat DEF Amounts
    <3>4. CASE SellAmount > 0
      BY <1>8, <2>1, <2>2, <3>1, <3>4 DEF Sell, Past, Withdrawing, Selling, Sending
    <3>5. CASE SellAmount = 0
      <4>1. released["A"] = 0
        BY <3>1, <3>2, <3>3, <3>5
      <4>2. released["A"] <= sold["A"] /\ sold["A"] <= CapOf(released["A"])
        BY <3>2, <3>3, <4>1
      <4> QED BY <1>8, <2>1, <2>2, <3>5, <4>2 DEF Sell, Past, Withdrawing, Selling, Sending
    <3> QED BY <3>1, <3>4, <3>5
  <2>3. CASE side = "B"
    <3>1. SellAmount = 0
      BY <2>3, <1>o DEF SellAmount, Sells
    <3> QED BY <1>8, <2>1, <2>3, <3>1 DEF Sell, Past, Withdrawing, Selling, Sending
  <2> QED BY <2>1, <2>2, <2>3 DEF Sides
<1>9. CASE Swap
  <2>1. /\ side = "A" /\ chunk = left /\ coins["A"] = released["A"]
        /\ coins["A"] <= left /\ left <= CapOf(coins["A"])
        /\ sold["A"] = 0 /\ usdc = 0 /\ pc = "swap" /\ step = "withdrawn"
        /\ UNCHANGED <<step, recUsdc, released, coins>>
    BY <1>9, <1>o DEF Swap, SwapEffect, OrderInv, Past, Selling, rowVars
  <2>2. sold'["A"] = chunk /\ sold'["B"] = 0 /\ usdc' = chunk
    <3>1. /\ sold' = [sold EXCEPT !["A"] = @ + chunk] /\ sold \in [Sides -> Nat]
          /\ usdc' = usdc + chunk /\ chunk \in Nat
      BY <1>9, <1>n, <2>1 DEF Swap, SwapEffect, Amounts
    <3>2. sold'["A"] = sold["A"] + chunk /\ sold'["B"] = sold["B"]
      BY <3>1 DEF Sides
    <3> QED BY <3>1, <3>2, <2>1
  <2>3. pc' = "sell" /\ side' = "B"
    BY <1>9, <1>n, <2>1 DEF Swap, Amounts
  <2> QED BY <2>1, <2>2, <2>3 DEF Past, Withdrawing, Selling, Sending
<1>10. CASE EndSwap
  <2>1. /\ step' = "swapped" /\ recUsdc' = usdc + coins["B"] /\ usdc' = recUsdc'
        /\ pc' \in {"send", "finish"} /\ pc = "swapped" /\ step = "withdrawn"
        /\ UNCHANGED <<coins, released, sold>>
    BY <1>10, <1>h, <1>o DEF EndSwap, Total, AfterSwap, OrderInv, Selling
  <2>2. /\ usdc = sold["A"] /\ coins["B"] = released["B"]
        /\ released["A"] <= sold["A"] /\ sold["A"] <= CapOf(released["A"])
    BY <2>1 DEF Past, Selling
  <2> QED BY <2>1, <2>2 DEF Past, Withdrawing, Selling, Sending
<1>11. CASE Send \/ Pay \/ EndTransfer
  <2>1. /\ step = "swapped" /\ pc \in Sending /\ step' \in {"swapped", "transferred"}
        /\ pc' \in Sending \cup {"finish"}
        /\ UNCHANGED <<recUsdc, usdc, coins, released, sold>>
    BY <1>11, <1>h, <1>o DEF Send, Pay, PayEffect, EndTransfer, rowVars, OrderInv, Sending
  <2> QED BY <2>1 DEF Past, Withdrawing, Selling, Sending
<1>12. CASE Finish
  <2>1. /\ step \in {"swapped", "transferred"} /\ step' = "complete" /\ pc' = "idle" /\ usdc' = 0
        /\ UNCHANGED <<recUsdc, released, sold>>
    BY <1>12, <1>h, <1>o DEF Finish, ForgetRun, OrderInv
  <2> QED BY <2>1 DEF Past, Withdrawing, Selling, Sending
<1>13. CASE Refused \/ Crash
  <2>1. /\ pc \notin {"sell", "swapped"} /\ pc' = "idle" /\ usdc' = 0
        /\ UNCHANGED <<step, recUsdc, released, sold>>
    BY <1>13, <1>h, <1>n DEF Refused, Crash, Fail, Die, ForgetRun, rowVars, Legs, Awaits, Marks
  <2> QED BY <2>1 DEF Past, Withdrawing, Selling, Sending
<1>14. CASE LandsUnseen
  BY <1>14 DEF LandsUnseen, OneSaleMode, Undisturbed
<1> QED BY <1>1, <1>2, <1>3, <1>4, <1>5, <1>6, <1>7, <1>8, <1>9, <1>10, <1>11, <1>12, <1>13,
           <1>14 DEF Next, Withdrawal, Proceed

LEMMA BookStep ==
  OneSaleMode =>
    (TInv /\ OrderInv /\ KnownInv /\ SaleInv /\ BookInv /\ [Next]_vars => BookInv')
<1> SUFFICES ASSUME OneSaleMode, TInv, OrderInv, KnownInv, SaleInv, BookInv, [Next]_vars
             PROVE  BookInv'
  OBVIOUS
<1>n. Amounts /\ Marks
  BY Kinds
<1>o. OrderInv /\ KnownInv /\ SaleInv /\ cfg.autoSwap /\ ~cfg.volatile
  BY DEF OneSaleMode
<1> USE DEF BookInv, Early, Late, Earnings, Nothing, CapitalOutSteps
<1>h. UNCHANGED history => UNCHANGED <<released, sold>>
  BY DEF history
<1>k. ASSUME UNCHANGED <<setup, step, bookVars, fresh, released, sold>> PROVE BookInv'
  BY <1>k DEF bookVars
<1>w. ASSUME NEW c, Withdrawn(c), UNCHANGED <<setup, flow, closeUsd, fresh, history>>,
             step \in Early, closeRow' \/ Nothing
      PROVE  BookInv'
  BY <1>w, <1>h DEF Withdrawn
<1>1. CASE Trigger \/ ManualWithdraw \/ UNCHANGED vars
  BY <1>1, <1>h, <1>k DEF Trigger, ManualWithdraw, vars, rowVars
<1>2. CASE StartExit
  <2>1. step = "none" /\ step' = "preparing" /\ UNCHANGED <<setup, bookVars, fresh>>
    BY <1>2, <1>o DEF StartExit, OrderInv
  <2> QED BY <2>1 DEF bookVars
<1>3. CASE Resume
  BY <1>3, <1>h, <1>k DEF Resume, rowVars
<1>4. CASE StepWithdraw
  <2>1. /\ step \in {"preparing", "drained"} /\ UNCHANGED <<setup, bookVars, fresh, history>>
        /\ pc = "withdraw"
    BY <1>4, <1>o DEF StepWithdraw, OrderInv, Withdrawing
  <2>2. closeRow \/ Nothing
    BY <2>1, <1>o DEF KnownInv
  <2>3. CASE UNCHANGED rowVars
    BY <2>1, <2>3, <1>h, <1>k DEF rowVars
  <2> QED BY <1>4, <2>1, <2>2, <2>3, <1>w DEF StepWithdraw, bookVars
<1>5. CASE Claim \/ Decrease \/ Burn
  <2>1. /\ step = "preparing" /\ UNCHANGED <<setup, step, bookVars, fresh>>
    BY <1>5, <1>o DEF Claim, Decrease, Burn, rowVars, KnownInv
  <2> QED BY <2>1 DEF bookVars
<1>6. CASE Book \/ MarkClosed
  <2>1. step \in Early /\ (closeRow' \/ Nothing)
    BY <1>6, <1>o DEF Book, MarkClosed, OrderInv, Withdrawing, bookVars, KnownInv
  <2> QED BY <1>6, <2>1, <1>w DEF Book, MarkClosed, bookVars
<1>7. CASE Rescue
  <2>1. /\ step = "preparing" /\ step' = "drained" /\ closeRow'
        /\ UNCHANGED <<setup, flow, closeUsd, fresh>>
    BY <1>7, <1>o DEF Rescue, KnownInv
  <2> QED BY <2>1
<1>8. CASE Sell \/ Send \/ Pay
  BY <1>8, <1>h, <1>k DEF Sell, Send, Pay, PayEffect, rowVars
<1>9. CASE Swap
  <2>1. step = "withdrawn" /\ UNCHANGED <<setup, step, bookVars, fresh, released>>
    BY <1>9, <1>o DEF Swap, SwapEffect, rowVars, OrderInv, Selling
  <2> QED BY <2>1 DEF bookVars
<1>10. CASE EndSwap
  <2>1. /\ step = "withdrawn" /\ pc = "swapped" /\ step' = "swapped"
        /\ flow' = flow + Total /\ UNCHANGED <<setup, closeRow, fresh, released, sold>>
        /\ closeUsd' = IF closeRow /\ fresh /\ closeUsd = 0 THEN Total ELSE closeUsd
    BY <1>10, <1>h, <1>o DEF EndSwap, OrderInv, Selling
  <2>2. Total = Earnings
    BY <2>1, <1>o DEF Total, SaleInv, Selling, Past, Same
  <2>3. flow = 0 /\ closeUsd = 0 /\ Earnings \in Nat
    BY <2>1, <1>n DEF Amounts
  <2> QED BY <2>1, <2>2, <2>3
<1>11. CASE EndTransfer
  <2>1. /\ step = "swapped" /\ step' = "transferred"
        /\ UNCHANGED <<setup, bookVars, fresh, released, sold>>
    BY <1>11, <1>h, <1>o DEF EndTransfer, OrderInv, Sending
  <2> QED BY <2>1 DEF bookVars
<1>12. CASE Finish
  <2>1. /\ step \in {"swapped", "transferred"} /\ step' = "complete"
        /\ UNCHANGED <<setup, bookVars, fresh, released, sold>>
    BY <1>12, <1>h, <1>o DEF Finish, OrderInv
  <2> QED BY <2>1 DEF bookVars
<1>13. CASE Refused \/ Crash
  BY <1>13, <1>h, <1>k DEF Refused, Crash, Fail, Die, rowVars
<1>14. CASE LandsUnseen
  BY <1>14 DEF LandsUnseen, OneSaleMode, Undisturbed
<1>15. CASE WindowPasses
  BY <1>15, <1>h DEF WindowPasses, rowVars, bookVars
<1> QED BY <1>1, <1>2, <1>3, <1>4, <1>5, <1>6, <1>7, <1>8, <1>9, <1>10, <1>11, <1>12, <1>13,
           <1>14, <1>15 DEF Next, Withdrawal, Proceed

(* The transfer takes the whole proceeds at once.                           *)
LEMMA SendsAll ==
  ASSUME OneSaleMode, TInv, WalletInv, SaleInv, PayInv, pc = "send", step = "swapped", cfg.sendTo
  PROVE  SendAmount = IF side = "A" THEN usdc ELSE 0
<1>1. CASE side = "A"
  <2>1. sent["USDC"] = 0 /\ usdc = Earnings
    BY <1>1 DEF PayInv, Unpaid, SaleInv, Sending, Early
  <2>2. wallet["USDC"] >= usdc
    BY <2>1, Kinds DEF WalletInv, Earnings, Amounts
  <2> QED BY <1>1, <2>2, Kinds DEF SendAmount, Least, OneSaleMode, Amounts
<1> QED BY <1>1 DEF SendAmount, OneSaleMode

LEMMA PayStep ==
  OneSaleMode =>
    (TInv /\ OrderInv /\ KnownInv /\ WalletInv /\ SaleInv /\ PayInv /\ [Next]_vars => PayInv')
<1> SUFFICES ASSUME OneSaleMode, TInv, OrderInv, KnownInv, WalletInv, SaleInv, PayInv, [Next]_vars
             PROVE  PayInv'
  OBVIOUS
<1>n. Amounts /\ Marks
  BY Kinds
<1>o. OrderInv /\ KnownInv /\ SaleInv /\ cfg.autoSwap /\ ~cfg.volatile
  BY DEF OneSaleMode
<1> USE DEF PayInv, Unpaid, Early, Earnings
<1>h. UNCHANGED history => UNCHANGED <<released, sold, sent>>
  BY DEF history
(* Before the transfer step nothing is paid, and the row is no further.     *)
<1>k. ASSUME UNCHANGED <<setup, sent>>, step \in Early \cup {"swapped"}, pc \notin Sending,
             step' \in Early \cup {"swapped"}, pc' \notin {"transferred", "pay"},
             pc' = "send" => side' = "A"
      PROVE  PayInv'
  BY <1>k, <1>n DEF Sending, Amounts
(* Afterwards what was paid stays.                                          *)
<1>p. ASSUME UNCHANGED <<setup, sent, released, sold>>, Unpaid' <=> Unpaid, pc' # "pay"
      PROVE  PayInv'
  BY <1>p
<1>1. CASE Trigger \/ ManualWithdraw \/ WindowPasses \/ UNCHANGED vars
  BY <1>1, <1>h DEF Trigger, ManualWithdraw, WindowPasses, vars, rowVars, runVars
<1>2. CASE StartExit \/ StepWithdraw \/ Claim \/ Decrease \/ Burn \/ Book \/ Rescue \/ MarkClosed
  <2>1. /\ pc \in Withdrawing \cup {"wait"} /\ step \in Early /\ step' \in Early
        /\ pc' \in Withdrawing \cup {"sell"} /\ UNCHANGED setup
    BY <1>2, <1>o DEF StartExit, StepWithdraw, Claim, Decrease, Burn, Book, Rescue, MarkClosed,
         Withdrawn, AfterWithdraw, OrderInv, Withdrawing, rowVars
  <2>2. UNCHANGED sent
    BY <1>2, <1>h DEF StartExit, StepWithdraw, Claim, Decrease, Burn, Book, Rescue, MarkClosed,
         ClaimEffect, DecreaseEffect, BurnEffect
  <2> QED BY <2>1, <2>2, <1>k DEF Withdrawing, Sending
<1>3. CASE Resume
  <2>1. /\ pc = "idle" /\ pc' \in {"withdraw", "sell", "send", "finish"} /\ side = "A"
        /\ UNCHANGED <<setup, step, side, sent, released, sold>>
    BY <1>3, <1>h, <1>n, <1>o DEF Resume, ResumeAt, Incomplete, AfterWithdraw, AfterSwap, Steps,
         Marks, rowVars, OrderInv, Selling, Sending
  <2> QED BY <2>1, <1>p
<1>4. CASE Sell \/ Swap
  <2>1. /\ step = "withdrawn" /\ pc \in Selling /\ pc' \in Selling
        /\ UNCHANGED <<setup, step, sent>>
    BY <1>4, <1>h, <1>o DEF Sell, Swap, SwapEffect, OrderInv, Selling, rowVars
  <2> QED BY <2>1, <1>k DEF Selling, Sending
<1>5. CASE EndSwap
  <2>1. /\ step = "withdrawn" /\ pc = "swapped" /\ step' = "swapped" /\ side' = "A"
        /\ pc' \in {"send", "finish"} /\ UNCHANGED <<setup, sent>>
    BY <1>5, <1>h, <1>o DEF EndSwap, AfterSwap, OrderInv, Selling
  <2> QED BY <2>1, <1>k DEF Sending
<1>6. CASE Send
  <2>1. /\ pc = "send" /\ step = "swapped" /\ cfg.sendTo /\ side \in Sides
        /\ UNCHANGED <<setup, step, usdc, released, sold, sent>>
        /\ SendAmount = IF side = "A" THEN usdc ELSE 0
    BY <1>6, <1>h, <1>n, <1>o, SendsAll DEF Send, OrderInv, Sending, rowVars, Marks
  <2>2. side = "A" => sent["USDC"] = 0 /\ usdc = Earnings
    BY <2>1, <1>o DEF SaleInv, Sending
  <2>3. CASE SendAmount > 0
    BY <1>6, <2>1, <2>2, <2>3 DEF Send
  <2>4. CASE SendAmount = 0
    BY <1>6, <2>1, <2>2, <2>4 DEF Send, Sides
  <2> QED BY <1>6, <2>3, <2>4 DEF Send
<1>7. CASE Pay
  <2>1. /\ pc = "pay" /\ side = "A" /\ step = "swapped" /\ cfg.sendTo /\ left = Earnings
        /\ sent["USDC"] = 0 /\ UNCHANGED <<setup, step, released, sold>>
    BY <1>7, <1>o DEF Pay, PayEffect, rowVars, OrderInv, Sending, SaleInv
  <2>2. sent' = [sent EXCEPT !["USDC"] = @ + left] /\ sent \in [Mints -> Nat] /\ left \in Nat
    BY <1>7, <1>n, <1>o DEF Pay, PayEffect, PayMint, Amounts
  <2>3. sent'["A"] = 0 /\ sent'["B"] = 0 /\ sent'["USDC"] = sent["USDC"] + left
    BY <2>2 DEF Mints
  <2>4. pc' = "send" /\ side' = "B"
    BY <1>7, <2>1 DEF Pay
  <2> QED BY <2>1, <2>2, <2>3, <2>4
<1>8. CASE EndTransfer
  <2>1. /\ ~Unpaid /\ ~Unpaid' /\ pc' = "finish"
        /\ UNCHANGED <<setup, released, sold, sent>>
    BY <1>8, <1>h DEF EndTransfer
  <2> QED BY <2>1, <1>p
<1>9. CASE Finish
  <2>1. /\ step' = "complete" /\ pc' = "idle" /\ UNCHANGED <<setup, released, sold, sent>>
        /\ cfg.sendTo => step = "transferred"
    BY <1>9, <1>h, <1>o DEF Finish, ForgetRun, OrderInv
  <2> QED BY <2>1
<1>10. CASE Refused \/ Crash
  <2>1. /\ pc \notin {"send", "transferred"} /\ pc' = "idle"
        /\ UNCHANGED <<setup, step, released, sold, sent>>
    BY <1>10, <1>h, <1>n DEF Refused, Crash, Fail, Die, ForgetRun, rowVars, Legs, Awaits, Marks
  <2> QED BY <2>1, <1>p
<1>11. CASE LandsUnseen
  BY <1>11 DEF LandsUnseen, OneSaleMode, Undisturbed
<1> QED BY <1>1, <1>2, <1>3, <1>4, <1>5, <1>6, <1>7, <1>8, <1>9, <1>10, <1>11
        DEF Next, Withdrawal, Proceed

LEMMA EarningSpec ==
  Spec => [](OneSaleMode => WalletInv /\ SaleInv /\ BookInv /\ PayInv)
<1> DEFINE I == OneSaleMode => WalletInv /\ SaleInv /\ BookInv /\ PayInv
           K == Undisturbed => KnownInv
<1>1. Init => I
  BY ExitAssumption DEF Init, WalletInv, SaleInv, BookInv, PayInv, Earnings, Early, Late, Unsold,
     Unpaid, Zero, Sides, Mints, Past, Withdrawing, Selling, Sending, CapitalOutSteps
<1>2. TInv /\ OrderInv /\ K /\ I /\ [Next]_vars => I'
  <2>1. [Next]_vars /\ OneSaleMode' => OneSaleMode
    BY SameSetup DEF OneSaleMode, Undisturbed
  <2>2. OneSaleMode => Undisturbed
    BY DEF OneSaleMode
  <2> QED BY <2>1, <2>2, WalletStep, SaleStep, BookStep, PayStep
<1>3. Spec => []K
  BY KnownSpec
<1> HIDE DEF I, K
<1>4. Spec => []I
  BY <1>1, <1>2, <1>3, TypedSpec, OrderSpec, PTL DEF Spec
<1> QED BY <1>4 DEF I

(* A completed exit has sold what it released, up to the tolerance of the   *)
(* cap, and both bookings (recordExitProceeds) show what it earned.         *)
THEOREM BothBooksShowIt == Spec => []ProceedsBooked
<1> DEFINE I == OneSaleMode => WalletInv /\ SaleInv /\ BookInv /\ PayInv
<1>1. TInv /\ I => ProceedsBooked
  <2> SUFFICES ASSUME TInv, I, Undisturbed, OneSale, ~around.late, step = "complete", cfg.autoSwap,
                      TotalReleased > 0
               PROVE  /\ \A s \in Sides :
                           Sells(s) => released[s] <= sold[s] /\ sold[s] <= CapOf(released[s])
                      /\ flow = Earned /\ closeUsd = Earned
    BY DEF ProceedsBooked
  <2>1. OneSaleMode /\ SaleInv /\ BookInv /\ ~cfg.volatile
    BY DEF OneSaleMode, OneSale
  <2>2. ~Nothing
    BY DEF TotalReleased, Nothing
  <2>3. /\ released["A"] <= sold["A"] /\ sold["A"] <= CapOf(released["A"])
        /\ flow = Earnings /\ closeUsd = Earnings
    BY <2>1, <2>2 DEF SaleInv, BookInv, Unsold, Late
  <2>4. Earned = Earnings
    BY <2>1 DEF Earned, Earnings
  <2> QED BY <2>1, <2>3, <2>4 DEF Sells, Sides
<1>2. Spec => []I
  BY EarningSpec
<1> HIDE DEF I
<1> QED BY <1>1, <1>2, TypedSpec, PTL

(* Without a receiver nothing is ever sent.                                 *)
NoReceiver == ~cfg.sendTo => \A m \in Mints : sent[m] = 0

LEMMA NoReceiverStep == OrderInv /\ NoReceiver /\ [Next]_vars => NoReceiver'
<1> SUFFICES ASSUME OrderInv, NoReceiver, [Next]_vars PROVE NoReceiver'
  OBVIOUS
<1>1. Pay \/ pc = "pay" => cfg.sendTo
  BY DEF OrderInv, Sending, Pay
<1>2. UNCHANGED sent \/ Pay \/ pc = "pay"
  BY DEF Next, vars, Trigger, StartExit, Resume, ManualWithdraw, Withdrawal, Proceed, StepWithdraw,
     Claim, Decrease, Burn, Book, Rescue, MarkClosed, Sell, Swap, EndSwap, Send,
     EndTransfer, Finish, Refused, LandsUnseen, Crash, WindowPasses, Effect, ClaimEffect,
     DecreaseEffect, BurnEffect, SwapEffect, history
<1> QED BY <1>1, <1>2, SameSetup DEF NoReceiver

(* The receiver gets what is due, once, whatever is resumed (header of      *)
(* exit-finalizer.js), under the conditions DeliveredOnce names.            *)
THEOREM OneDelivery == Spec => []DeliveredOnce
<1> DEFINE I == OneSaleMode => WalletInv /\ SaleInv /\ BookInv /\ PayInv
<1>1. TInv /\ OrderInv /\ NoReceiver /\ I => DeliveredOnce
  <2> SUFFICES ASSUME TInv, OrderInv, NoReceiver, I, Undisturbed, OneSale, OnePayment
               PROVE  /\ \A m \in Mints : sent[m] <= Due(m)
                      /\ step = "complete" /\ cfg.sendTo => \A m \in Mints : sent[m] = Due(m)
    BY DEF DeliveredOnce, NeverSentTwice
  <2>1. Amounts
    BY Kinds
  <2>2. CASE ~cfg.autoSwap
    <3>1. ~cfg.sendTo /\ \A m \in Mints : sent[m] = 0
      BY <2>2 DEF OnePayment, NoReceiver
    <3>2. \A m \in Mints : Due(m) \in Nat
      BY <2>1, <2>2 DEF Due, MintOf, Amounts
    <3> QED BY <3>1, <3>2
  <2>3. CASE cfg.autoSwap
    <3>1. OneSaleMode /\ PayInv /\ ~cfg.volatile
      BY <2>3 DEF OneSaleMode, OneSale
    <3>2. Due("A") = 0 /\ Due("B") = 0 /\ Due("USDC") = Earnings
      BY <2>3, <3>1 DEF Due, Earned, Earnings
    <3>3. sent["A"] = 0 /\ sent["B"] = 0
      BY <3>1 DEF PayInv
    <3>4. sent["USDC"] = 0 \/ sent["USDC"] = Earnings
      BY <3>1 DEF PayInv
    <3>5. Earnings \in Nat
      BY <2>1 DEF Amounts, Earnings
    <3>6. step = "complete" /\ cfg.sendTo => sent["USDC"] = Earnings
      BY <3>1 DEF PayInv, Unpaid, Early
    <3> QED BY <3>2, <3>3, <3>4, <3>5, <3>6 DEF Mints
  <2> QED BY <2>2, <2>3
<1>2. Spec => []NoReceiver
  <2>1. Init => NoReceiver
    BY DEF Init, NoReceiver
  <2> QED BY <2>1, OrderSpec, NoReceiverStep, PTL DEF Spec
<1>3. Spec => []I
  BY EarningSpec
<1> HIDE DEF I
<1> QED BY <1>1, <1>2, <1>3, TypedSpec, OrderSpec, PTL

-----------------------------------------------------------------------------
(* Records, whatever happens.                                               *)

(* A withdrawal at work has no record yet, and a rescue marks its own.      *)
Unbroken ==
  /\ pc \in {"claim", "decrease", "burn", "book"} => step = "preparing"
  /\ pc = "markClosed" => step = "drained" /\ coins = rec

LEMMA UnbrokenStep == TInv /\ OrderInv /\ Unbroken /\ [Next]_vars => Unbroken' /\ Stands
<1> SUFFICES ASSUME TInv, OrderInv, Unbroken, [Next]_vars PROVE Unbroken' /\ Stands
  OBVIOUS
<1>n. step \in Steps /\ pc \in Places
  BY Parts DEF RowTypes, RunTypes
<1>s. ASSUME UNCHANGED <<step, rec, recUsdc, flow, closeUsd>> PROVE Stands
  BY <1>s DEF Stands
<1>i. ASSUME pc' \notin {"claim", "decrease", "burn", "book", "markClosed"} PROVE Unbroken'
  BY <1>i DEF Unbroken
<1>w. ASSUME NEW c, Withdrawn(c), step = "preparing" \/ (step = "drained" /\ c = rec),
             UNCHANGED <<cfg, flow, closeUsd>>
      PROVE  Unbroken' /\ Stands
  <2>1. pc' \in {"sell", "send", "finish"}
    BY <1>w DEF Withdrawn, AfterWithdraw, AfterSwap
  <2>2. Stands
    BY <1>w DEF Withdrawn, Stands, Prefixes, Steps, Late
  <2> QED BY <2>1, <2>2, <1>i
<1>1. CASE Trigger \/ WindowPasses \/ UNCHANGED vars
  BY <1>1, <1>s DEF Trigger, WindowPasses, vars, rowVars, runVars, bookVars, Unbroken
<1>2. CASE StartExit
  <2>1. step = "none" /\ step' = "preparing" /\ UNCHANGED <<rec, recUsdc, flow, closeUsd>>
    BY <1>2 DEF StartExit, OrderInv, bookVars
  <2> QED BY <1>2, <1>i, <2>1 DEF StartExit, Stands, Prefixes, Steps, Late
<1>3. CASE ManualWithdraw
  BY <1>3, <1>s DEF ManualWithdraw, rowVars, runVars, bookVars, Unbroken
<1>4. CASE Resume
  <2>1. pc' \in {"withdraw", "sell", "send", "finish"}
    BY <1>4, <1>n DEF Resume, ResumeAt, Incomplete, AfterWithdraw, AfterSwap, Steps
  <2> QED BY <1>4, <1>i, <1>s, <2>1 DEF Resume, rowVars, bookVars
<1>5. CASE StepWithdraw
  <2>1. step \in {"preparing", "drained"}
    BY <1>5 DEF StepWithdraw, OrderInv, Withdrawing
  <2>2. UNCHANGED <<cfg, flow, closeUsd>>
    BY <1>5 DEF StepWithdraw, bookVars
  <2>3. CASE step # "drained" /\ UNCHANGED rowVars /\ pc' = "claim"
    BY <2>1, <2>2, <2>3, <1>s DEF rowVars, Unbroken
  <2> QED BY <1>5, <1>w, <2>1, <2>2, <2>3 DEF StepWithdraw
<1>6. CASE Claim \/ Decrease \/ Burn
  BY <1>6, <1>s DEF Claim, Decrease, Burn, rowVars, bookVars, Unbroken
<1>7. CASE Book \/ MarkClosed
  BY <1>7, <1>w DEF Book, MarkClosed, bookVars, Unbroken
<1>8. CASE Rescue
  <2>1. step = "preparing" /\ step' = "drained" /\ UNCHANGED <<recUsdc, flow, closeUsd>>
    BY <1>8 DEF Rescue, Unbroken
  <2>2. Stands
    BY <2>1 DEF Stands, Prefixes, Steps, Late
  <2> QED BY <1>8, <2>1, <2>2 DEF Rescue, Unbroken
<1>9. CASE Sell \/ Swap \/ Send \/ Pay
  BY <1>9, <1>i, <1>s DEF Sell, Swap, Send, Pay, rowVars, bookVars
<1>10. CASE EndSwap
  <2>1. step = "withdrawn" /\ step' = "swapped" /\ rec' = rec /\ pc' \in {"send", "finish"}
    BY <1>10 DEF EndSwap, AfterSwap, OrderInv, Selling
  <2> QED BY <2>1, <1>i DEF Stands, Prefixes, Steps, Late
<1>11. CASE EndTransfer
  <2>1. /\ step \in {"swapped", "withdrawn"} /\ step' = "transferred" /\ pc' = "finish"
        /\ UNCHANGED <<rec, recUsdc, flow, closeUsd>>
    BY <1>11 DEF EndTransfer, OrderInv, Sending, bookVars
  <2> QED BY <2>1, <1>i DEF Stands, Prefixes, Steps, Late
<1>12. CASE Finish
  <2>1. /\ step \in {"withdrawn", "swapped", "transferred"} /\ step' = "complete"
        /\ pc' = "idle" /\ UNCHANGED <<rec, recUsdc, flow, closeUsd>>
    BY <1>12 DEF Finish, ForgetRun, OrderInv, bookVars
  <2> QED BY <2>1, <1>i DEF Stands, Prefixes, Steps, Late
<1>13. CASE Refused \/ Crash \/ LandsUnseen
  <2>1. pc' = "idle" /\ UNCHANGED <<step, rec, recUsdc, flow, closeUsd>>
    BY <1>13 DEF Refused, Crash, LandsUnseen, Fail, Die, ForgetRun, rowVars, bookVars
  <2> QED BY <2>1, <1>i, <1>s
<1> QED BY <1>1, <1>2, <1>3, <1>4, <1>5, <1>6, <1>7, <1>8, <1>9, <1>10, <1>11, <1>12, <1>13
        DEF Next, Withdrawal, Proceed

(* Whatever fails, crashes, lands unseen or is resumed, in every            *)
(* configuration: the row of an exit never goes back, its coins are written *)
(* once, and its proceeds are booked by one step only (RecordStands).       *)
THEOREM NothingUndone == Spec => RecordStands
<1>1. Init => Unbroken
  BY DEF Init, Unbroken
<1>2. TInv /\ OrderInv /\ Unbroken /\ [Next]_vars => Unbroken'
  BY UnbrokenStep
<1>3. TInv /\ OrderInv /\ Unbroken /\ [Next]_vars => [Stands]_vars
  BY UnbrokenStep
<1> QED BY <1>1, <1>2, <1>3, TypedSpec, OrderSpec, PTL DEF Spec, RecordStands

(* So the capital flow shows exactly what the row says the exit earned, and *)
(* nothing before it says so.                                               *)
FlowIsRecord == flow = recUsdc /\ (step \notin Late => flow = 0)

THEOREM BookedAtMostOnce == Spec => []FlowIsRecord
<1>1. Init => FlowIsRecord
  BY DEF Init, FlowIsRecord
<1>2. TInv /\ OrderInv /\ Unbroken /\ FlowIsRecord /\ [Next]_vars => FlowIsRecord'
  <2> SUFFICES ASSUME TInv, OrderInv, Unbroken, FlowIsRecord, [Next]_vars PROVE FlowIsRecord'
    OBVIOUS
  <2>1. Stands
    BY UnbrokenStep
  <2>2. CASE UNCHANGED <<recUsdc, flow>>
    <3>1. step \in Late => step' \in Late
      <4>1. step \in Steps /\ step' \in Steps
        BY TypeStep, Parts DEF TInv, TypeOK, RowTypes
      <4>2. Steps \ Late \in Prefixes
        BY DEF Prefixes
      <4> QED BY <2>1, <4>1, <4>2 DEF Stands
    <3> QED BY <2>2, <3>1 DEF FlowIsRecord
  <2>3. CASE step = "withdrawn" /\ step' = "swapped" /\ ~UNCHANGED <<recUsdc, flow>>
    <3>1. recUsdc' = Total /\ flow' = flow + Total
      BY <2>3 DEF Next, vars, Trigger, StartExit, Resume, ManualWithdraw, Withdrawal, Proceed,
         StepWithdraw, Withdrawn, Claim, Decrease, Burn, Book, Rescue, MarkClosed, Sell, Swap,
         EndSwap, Send, Pay, EndTransfer, Finish, Refused, LandsUnseen, Crash, WindowPasses, Fail,
         Die, rowVars, bookVars
    <3>2. flow = 0 /\ Total \in Nat
      BY <2>3, Parts DEF FlowIsRecord, Late, Total, RowTypes, RunTypes, Sides
    <3> QED BY <2>3, <3>1, <3>2 DEF FlowIsRecord, Late
  <2> QED BY <2>1, <2>2, <2>3 DEF Stands
<1>3. Init => Unbroken
  BY DEF Init, Unbroken
<1>4. TInv /\ OrderInv /\ Unbroken /\ [Next]_vars => Unbroken'
  BY UnbrokenStep
<1> QED BY <1>1, <1>2, <1>3, <1>4, TypedSpec, OrderSpec, PTL DEF Spec
=============================================================================
