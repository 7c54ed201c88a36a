------------------------------ MODULE LineSearch ------------------------------
(***************************************************************************)
(* The line searches of liblbfgs-1.10/lib/lbfgs.c without L1                *)
(* regularization: line_search_backtracking, and line_search_morethuente    *)
(* with update_trial_interval.                                              *)
(*                                                                          *)
(* Along the direction the objective is a function of the step.  Its values *)
(* and derivatives are any of Evaluations that lie above the tangent at 0,  *)
(* as those of the convex objective of crfsuite do.  The minimizer of an    *)
(* interpolation is any of a few points of the interval in which it lies.   *)
(* Numbers are exact fractions.                                             *)
(***************************************************************************)
EXTENDS Fractions

CONSTANTS
  SearchOptions,  (* lbfgs_parameter_t: linesearch, max_linesearch,           *)
                  (* min_step, max_step, ftol, wolfe, gtol and xtol           *)
  Slopes,         (* dginit: the derivatives at step 0                        *)
  Evaluations,    (* what the objective may be at a step, [f, dg], where it   *)
                  (* is 0 at step 0                                           *)
  Ratio           (* 0.66; 2/3 keeps the numbers small                        *)

Searches == {"morethuente", "armijo", "wolfe", "strong wolfe"}

(* The checks of lbfgs() on its parameters, and what holds for the defaults *)
(* that crfsuite leaves as they are, ftol = 1e-4, gtol = 0.9 and 1 being a  *)
(* step.  A gradient of 0 ends lbfgs() before it searches along it.         *)
ASSUME SearchAssumption ==
  /\ \A o \in SearchOptions :
       /\ o.linesearch \in Searches /\ o.max_linesearch \in Nat \ {0}
       /\ \A x \in {o.min_step, o.max_step, o.ftol, o.wolfe, o.gtol, o.xtol} : Lowest(x)
       /\ Less(Zero, o.min_step) /\ ~Less(One, o.min_step) /\ ~Less(o.max_step, One)
       /\ ~Less(o.ftol, Zero) /\ ~Less(o.gtol, Times(<< 6, 1 >>, o.ftol))
       /\ ~Less(o.gtol, << 1, 2 >>) /\ ~Less(o.xtol, Zero)
       /\ Less(o.ftol, o.wolfe) /\ Less(o.wolfe, One)
  /\ Lowest(Ratio) /\ Less(<< 1, 2 >>, Ratio) /\ Less(Ratio, One)
  /\ \A slope \in Slopes : Lowest(slope) /\ slope # Zero
  /\ \A e \in Evaluations : Lowest(e.f) /\ Lowest(e.dg)

VARIABLES
  search,         (* the parameters                                          *)
  dginit,         (* the derivative at the start; finit is 0                 *)
  state,          (* "search", or what the search returned                   *)
  stp, value,     (* the step, and f and dg at the last one evaluated        *)
  count,          (* evaluations                                             *)
  iv,             (* stx, fx, dgx, sty, fy, dgy and brackt                   *)
  stage1, uinfo,  (* of line_search_morethuente                              *)
  width,          (* width and prev_width                                    *)
  widths,         (* history: of the intervals since the minimum is brackt   *)
  astray          (* history: the next trial is the end of the interval that *)
                  (* has just been left behind                               *)

searchVars == <<search, dginit, state, stp, value, count, iv, stage1, uinfo, width, widths, astray>>

Plus(x, y) == plus[x, y]
Sub(x, y) == plus[x, Minus(y)]
Abs(x) == IF x[1] < 0 THEN Minus(x) ELSE x
Lower(x, y) == IF Less(y, x) THEN y ELSE x
Upper(x, y) == IF Less(x, y) THEN y ELSE x
NotAbove(x, y) == ~Less(y, x)

dgtest == Times(search.ftol, dginit)

(* ftest1: what sufficient decrease asks of a step.                         *)
Test(step) == Times(step, dgtest)

(***************************************************************************)
(* Both searches begin alike: s has to be a direction of descent.           *)
(***************************************************************************)
SearchInit ==
  /\ search \in SearchOptions /\ dginit \in Slopes
  /\ stp = One /\ value = [f |-> Zero, dg |-> dginit] /\ count = 0
  /\ state = IF Less(Zero, dginit) THEN "INCREASEGRADIENT" ELSE "search"
  /\ iv = [x |-> Zero, fx |-> Zero, dx |-> dginit, y |-> Zero, fy |-> Zero, dy |-> dginit, brackt |-> FALSE]
  /\ stage1 = TRUE /\ uinfo = 0
  /\ width = << Sub(search.max_step, search.min_step),
                Times(<< 2, 1 >>, Sub(search.max_step, search.min_step)) >>
  /\ widths = << >> /\ astray = FALSE

(* proc_evaluate at a step: at an end of the interval it has been.          *)
ValuesAt(step) ==
  { e \in IF step = iv.x /\ count > 0 THEN {[f |-> iv.fx, dg |-> iv.dx]}
          ELSE IF step = iv.y /\ count > 0 THEN {[f |-> iv.fy, dg |-> iv.dy]}
          ELSE Evaluations :
      NotAbove(dginit, e.dg) /\ NotAbove(Times(dginit, step), e.f) }

(***************************************************************************)
(* line_search_backtracking                                                 *)
(***************************************************************************)
Dec == << 1, 2 >>
Inc == << 21, 10 >>

(* Mutant: a strong Wolfe search takes a derivative that is too steep.       *)
WidthWithoutStrong(e) ==
  IF Less(Test(stp), e.f) THEN Dec
  ELSE IF search.linesearch # "armijo" /\ Less(e.dg, Times(search.wolfe, dginit)) THEN Inc ELSE Zero

(* How the step is to change, or 0 when it is taken.                        *)
Width(e) ==
  CASE Less(Test(stp), e.f) -> Dec
    [] ~Less(Test(stp), e.f) /\ search.linesearch = "armijo" -> Zero
    [] ~Less(Test(stp), e.f) /\ search.linesearch # "armijo" ->
         IF Less(e.dg, Times(search.wolfe, dginit)) THEN Inc
         ELSE IF search.linesearch = "strong wolfe" /\ Less(Minus(Times(search.wolfe, dginit)), e.dg)
         THEN Dec ELSE Zero

Backtrack ==
  /\ state = "search" /\ search.linesearch # "morethuente"
  /\ \E e \in ValuesAt(stp) :
       /\ value' = e
       /\ state' = IF Width(e) = Zero THEN "found"
                   ELSE IF Less(stp, search.min_step) THEN "MINIMUMSTEP"
                   ELSE IF Less(search.max_step, stp) THEN "MAXIMUMSTEP"
                   ELSE IF search.max_linesearch <= count + 1 THEN "MAXIMUMLINESEARCH"
                   ELSE "search"
       /\ stp' = IF state' = "search" THEN Times(stp, Width(e)) ELSE stp
  /\ count' = count + 1
  /\ UNCHANGED <<search, dginit, iv, stage1, uinfo, width, widths, astray>>

(***************************************************************************)
(* update_trial_interval                                                    *)
(***************************************************************************)
Between(x, y) == { Plus(x, Times(q, Sub(y, x))) : q \in {<< 1, 8 >>, << 7, 8 >>} }

(* theta of CUBIC_MINIMIZER2: together with the derivatives it tells which  *)
(* way the cubic through x and t bends.                                     *)
Theta(i, t, e) ==
  Plus(DividedBy(Times(<< 3, 1 >>, Sub(i.fx, e.f)), Sub(t, i.x)), Plus(i.dx, e.dg))

(* Case 3, where the cubic goes down to the minimizer beyond t or is taken  *)
(* to be at one of the ends.  Which end the sign of theta says and not the  *)
(* direction: a cubic without a minimizer is taken to be at the end behind  *)
(* t, that is at x, when theta has the sign of t - x.                       *)
CubicTurnsBack(i, t, e) ==
  LET theta == Theta(i, t, e)
  IN  /\ Less(theta, Zero) <=> Less(t, i.x)
      /\ e.dg = Zero \/ NotAbove(Times(theta, theta), Times(i.dx, e.dg))

(* The secant's minimizer is always ahead of t; between the two the         *)
(* distance from t decides.                                                 *)
TurnsBack(i, t, e) ==
  /\ CubicTurnsBack(i, t, e)
  /\ LET twice == Times(<< 2, 1 >>, Abs(e.dg))
     IN  IF i.brackt THEN Less(Abs(i.dx), twice) ELSE Less(twice, Abs(i.dx))

(* The new trial value before it is clipped, in the cases 1 to 4.  The      *)
(* minimizers of cases 1 and 2 lie between x and t.                         *)
NewTrials(i, t, e, tmin, tmax, dsign) ==
  LET ahead  == IF Less(i.x, t) THEN tmax ELSE tmin
      behind == IF Less(i.x, t) THEN tmin ELSE tmax
  IN  CASE Less(i.fx, e.f) \/ dsign -> Between(i.x, t)
        [] ~Less(i.fx, e.f) /\ ~dsign /\ Less(Abs(e.dg), Abs(i.dx)) ->
             IF TurnsBack(i, t, e) THEN { behind }
             ELSE IF i.brackt /\ e.dg = Zero THEN { t }
             ELSE Between(t, ahead) \cup { ahead }
        [] OTHER -> IF i.brackt THEN Between(t, i.y) ELSE { ahead }

(* The cases a, b and c of the new interval.                                *)
NewInterval(i, t, e, dsign) ==
  LET brackt == i.brackt \/ Less(i.fx, e.f) \/ dsign
  IN  CASE Less(i.fx, e.f) -> [i EXCEPT !.y = t, !.fy = e.f, !.dy = e.dg, !.brackt = brackt]
        [] ~Less(i.fx, e.f) /\ dsign ->
             [x |-> t, fx |-> e.f, dx |-> e.dg, y |-> i.x, fy |-> i.fx, dy |-> i.dx, brackt |-> brackt]
        [] OTHER -> [i EXCEPT !.x = t, !.fx = e.f, !.dx = e.dg]

(* Clipped to [tmin, tmax]; in the cases 1 and 3, with the minimum brackt,  *)
(* it does not come closer to y than a third of the interval.               *)
Safeguarded(newt, i, tmin, tmax, bound) ==
  LET clipped == Upper(Lower(newt, tmax), tmin)
      mq == Plus(i.x, Times(Ratio, Sub(i.y, i.x)))
  IN  IF ~(i.brackt /\ bound) THEN clipped
      ELSE IF Less(i.x, i.y) THEN Lower(clipped, mq) ELSE Upper(clipped, mq)

(* What it returns and leaves in the interval and in t.                     *)
TrialIntervals(i, t, e, tmin, tmax) ==
  LET dsign == i.dx # Zero /\ Less(Times(e.dg, i.dx), Zero)
      bound == Less(i.fx, e.f) \/ (~dsign /\ Less(Abs(e.dg), Abs(i.dx)))
      new   == NewInterval(i, t, e, dsign)
      back  == ~Less(i.fx, e.f) /\ bound /\ TurnsBack(i, t, e)
      Refused(why) == { [uinfo |-> why, iv |-> i, t |-> t, back |-> FALSE] }
  IN  IF i.brackt /\ (NotAbove(t, Lower(i.x, i.y)) \/ NotAbove(Upper(i.x, i.y), t)) THEN Refused(1)
      ELSE IF i.brackt /\ ~Less(Times(i.dx, Sub(t, i.x)), Zero) THEN Refused(2)
      ELSE IF i.brackt /\ Less(tmax, tmin) THEN Refused(3)
      ELSE { [uinfo |-> 0, iv |-> new, t |-> Safeguarded(newt, new, tmin, tmax, bound), back |-> back] :
               newt \in NewTrials(i, t, e, tmin, tmax, dsign) }

(***************************************************************************)
(* line_search_morethuente                                                  *)
(***************************************************************************)
stmin == IF iv.brackt THEN Lower(iv.x, iv.y) ELSE iv.x
stmax == IF iv.brackt THEN Upper(iv.x, iv.y) ELSE Plus(stp, Times(<< 4, 1 >>, Sub(stp, iv.x)))

Clip(step) == Lower(Upper(step, search.min_step), search.max_step)

AtAnEnd(step) == NotAbove(step, stmin) \/ NotAbove(stmax, step)
TooNarrow == NotAbove(Sub(stmax, stmin), Times(search.xtol, stmax))

(* An unusual termination is to occur: the lowest point is taken.           *)
TrialStep ==
  IF iv.brackt /\ (AtAnEnd(Clip(stp)) \/ search.max_linesearch <= count + 1 \/ uinfo # 0 \/ TooNarrow)
  THEN iv.x ELSE Clip(stp)

(* The tests for errors and convergence, in their order.                    *)
Verdict(step, e) ==
  IF iv.brackt /\ (AtAnEnd(step) \/ uinfo # 0) THEN "ROUNDING_ERROR"
  ELSE IF step = search.max_step /\ NotAbove(e.f, Test(step)) /\ NotAbove(e.dg, dgtest) THEN "MAXIMUMSTEP"
  ELSE IF step = search.min_step /\ (Less(Test(step), e.f) \/ NotAbove(dgtest, e.dg)) THEN "MINIMUMSTEP"
  ELSE IF iv.brackt /\ TooNarrow THEN "WIDTHTOOSMALL"
  ELSE IF search.max_linesearch <= count + 1 THEN "MAXIMUMLINESEARCH"
  ELSE IF NotAbove(e.f, Test(step)) /\ NotAbove(Abs(e.dg), Times(search.gtol, Minus(dginit))) THEN "found"
  ELSE "search"

(* Values less the line that sufficient decrease asks for, and back.        *)
Tilt(i, by) ==
  [i EXCEPT !.fx = Sub(@, Times(i.x, by)), !.fy = Sub(@, Times(i.y, by)),
            !.dx = Sub(@, by), !.dy = Sub(@, by)]

(* Mutant: the interval is updated with the function itself throughout.     *)
IntervalsUnmodified(first, step, e) == TrialIntervals(iv, step, e, stmin, stmax)

(* In the first stage, with a lower value that is not low enough, the       *)
(* interval is updated with the modified function.                          *)
Intervals(first, step, e) ==
  IF first /\ Less(Test(step), e.f) /\ NotAbove(e.f, iv.fx)
  THEN { [r EXCEPT !.iv = Tilt(@, Minus(dgtest))] :
           r \in TrialIntervals(Tilt(iv, dgtest), step,
                                [f |-> Sub(e.f, Test(step)), dg |-> Sub(e.dg, dgtest)], stmin, stmax) }
  ELSE TrialIntervals(iv, step, e, stmin, stmax)

(* An interval that was not made shorter by a third in two steps is halved. *)
Wide(i) == NotAbove(Times(Ratio, width[2]), Abs(Sub(i.y, i.x)))

Halved(i, t) == IF Wide(i) THEN Plus(i.x, Times(Dec, Sub(i.y, i.x))) ELSE t

(* The loop's body.                                                         *)
MoreThuente ==
  /\ state = "search" /\ search.linesearch = "morethuente"
  /\ \E step \in { TrialStep } : \E e \in ValuesAt(step) :
       LET verdict == Verdict(step, e)
           first == stage1 /\ ~(NotAbove(e.f, Test(step))
                                /\ NotAbove(Times(Lower(search.ftol, search.gtol), dginit), e.dg))
       IN  /\ value' = e /\ state' = verdict
           /\ IF verdict # "search"
              THEN stp' = step /\ UNCHANGED <<iv, stage1, uinfo, width, widths, astray>>
              ELSE /\ stage1' = first
                   /\ \E r \in Intervals(first, step, e) :
                        /\ uinfo' = r.uinfo /\ iv' = r.iv
                        /\ astray' = (r.back /\ ~(r.iv.brackt /\ Wide(r.iv)))
                        /\ IF r.iv.brackt
                           THEN /\ stp' = Halved(r.iv, r.t)
                                /\ width' = << Abs(Sub(r.iv.y, r.iv.x)), width[1] >>
                                /\ widths' = Append(widths, Abs(Sub(r.iv.y, r.iv.x)))
                           ELSE stp' = r.t /\ UNCHANGED <<width, widths>>
  /\ count' = count + 1
  /\ UNCHANGED <<search, dginit>>

SearchNext == Backtrack \/ MoreThuente

SearchSpec == SearchInit /\ [][SearchNext]_searchVars

(***************************************************************************)
(* Properties                                                               *)
(***************************************************************************)
(* The interval of More and Thuente.  The step stx is the lowest there was, *)
(* and in the first stage low enough; the objective falls from it towards   *)
(* sty once the minimum is brackt; so update_trial_interval never has       *)
(* anything to refuse.  The next trial is inside of the interval, but for   *)
(* one case: with the minimum brackt the cubic of case 3 may be taken to be *)
(* at the end behind (lbfgs.c:1215-1221), and when the interval is not      *)
(* halved the search goes back to stx and returns a rounding error.  Three  *)
(* trials make an interval shorter by a third, whatever the interpolations  *)
(* say.                                                                     *)
IntervalHoldsTheMinimum ==
  /\ \A i \in DOMAIN widths :
       i + 3 \in DOMAIN widths => NotAbove(widths[i + 3], Times(Ratio, widths[i]))
  /\ state = "search" /\ search.linesearch = "morethuente" =>
       /\ uinfo = 0
       /\ NotAbove(iv.fx, Zero)
       /\ stage1 => NotAbove(iv.fx, Test(iv.x)) /\ NotAbove(iv.dx, dgtest)
       /\ iv.brackt => Less(Times(iv.dx, Sub(iv.y, iv.x)), Zero)
       /\ iv.brackt /\ ~astray => Less(stmin, stp) /\ Less(stp, stmax)
       /\ astray => /\ iv.brackt /\ TrialStep = iv.x
                    /\ \A e \in ValuesAt(TrialStep) : Verdict(TrialStep, e) = "ROUNDING_ERROR"

(* What is found keeps the conditions of lbfgs.h:150-191.  Backtracking looks *)
(* at a step's bounds only after it has tried it, and may find one outside,  *)
(* but by no more than the last change; the other search stays inside.       *)
StepKeepsItsConditions ==
  /\ state = "found" =>
       /\ NotAbove(value.f, Test(stp))
       /\ search.linesearch = "wolfe" => NotAbove(Times(search.wolfe, dginit), value.dg)
       /\ search.linesearch = "strong wolfe" => NotAbove(Abs(value.dg), Abs(Times(search.wolfe, dginit)))
       /\ search.linesearch = "morethuente" =>
            /\ NotAbove(Abs(value.dg), Abs(Times(search.gtol, dginit)))
            /\ NotAbove(search.min_step, stp) /\ NotAbove(stp, search.max_step)
       /\ NotAbove(Times(Dec, search.min_step), stp)
       /\ NotAbove(stp, Times(Inc, search.max_step))
  /\ count <= search.max_linesearch
==============================================================================
