---------------------------- MODULE GatewayRest ----------------------------
(***************************************************************************)
(* The REST side of the Upbit gateway: FastAPI worker threads that run     *)
(* execute_request (apps/upbit_gateway/goodmoneying_upbit_gateway/main.py) *)
(* -> UpbitExecutor.execute -> GroupRateLimiter at the same time.  The     *)
(* limiter keeps, per rate-limit group, the times of the calls it granted  *)
(* (`_calls') and the time until which the group is blocked                *)
(* (`_blocked_until'); its lock covers one look at them at a time and not  *)
(* the sleep between two looks, nor the time from the grant to the answer. *)
(*                                                                         *)
(* Time is counted in ticks of which Second make one second.  What Upbit   *)
(* answers a call is any of Answers[c].                                    *)
(***************************************************************************)
EXTENDS Naturals, Sequences, FiniteSets, FiniteSetsExt

CONSTANTS Calls,     \* the requests the console sends, one thread each
          Requests,  \* call -> the requests it may be
          Answers,   \* call -> what Upbit may answer it
          Groups,    \* the rate-limit groups of the catalogue
          Limit,     \* group -> the requests its window admits
          Window,    \* group -> the length of its window, in ticks
          Second,    \* the ticks of a second
          Fallback,  \* fallback_seconds, the penalty of a bare 418, in ticks
          Horizon    \* how long time passes while no thread sleeps

ASSUME RestAssumption ==
    /\ Second \in Nat \ {0} /\ Fallback \in Nat \ {0} /\ Horizon \in Nat
    /\ Limit \in [Groups -> Nat \ {0}] /\ Window \in [Groups -> Nat \ {0}]

(* Every endpoint of the catalogue is in a group with a limit.             *)
ASSUME CatalogueAssumption ==
    \A c \in Calls : \A r \in Requests[c] : r.known => r.endpoint.group \in Groups

Pause == [kind : {"duration", "deadline"}, value : Nat]

(* An answer: what its Remaining-Req header says of a group, the           *)
(* catalogue's or another, and the pauses it names.                        *)
Answer ==
    [status : Nat, json : BOOLEAN, remaining : [group : Groups \union {"other"}, sec : Nat],
     header : SUBSET Pause, body : SUBSET Pause]

ASSUME AnswerAssumption ==
    \A c \in Calls : \A a \in Answers[c] :
        a \in Answer /\ IsFiniteSet(a.header) /\ IsFiniteSet(a.body)

VARIABLES clock,    \* time.monotonic, and time.time
          calls,    \* group -> the deque _calls
          blocked,  \* group -> _blocked_until (0: never blocked)
          pc,       \* call -> where its thread is
          req,      \* call -> its request, from its acceptance to its end
          wake,     \* call -> the end of its sleep in acquire
          answer,   \* call -> the answer it is working through
          grants,   \* group -> every grant so far (a history)
          owed      \* group -> the end of the longest pause Upbit has asked for

restVars == <<clock, calls, blocked, pc, req, wake, answer, grants, owed>>

NoReq == [endpoint |-> "none"]
NoAnswer == [status |-> 0]

-----------------------------------------------------------------------------
(* The catalogue's contract for a request's parameters.  A value is a      *)
(* record [type, size, blank, items, date, number, good] of what the       *)
(* contract looks at: its JSON type, its length, whether it is blank, the  *)
(* blank or repeated members of a list, its place in time or as a number,  *)
(* and whether it is one of the enumerated values and has the format.      *)

(* client._has_parameter_value *)
HasValue(values, name) ==
    /\ name \in DOMAIN values
    /\ values[name].type # "null"
    /\ values[name].type \in {"string", "array"} => ~values[name].blank

(* client._matches_parameter_schema, _matches_string_format *)
MatchesSchema(v, spec) ==
    /\ v.type = spec.type
    /\ v.type \in {"string", "array"} => v.size \in spec.sizes
    /\ v.type = "array" => ~v.hasBlank /\ (spec.unique => ~v.repeats)
    /\ v.good
    /\ v.type \in {"integer", "number"} => v.number \in spec.range

(* client._validate_forbidden_value_combinations *)
NoForbiddenCombination(endpoint, values) ==
    \A rule \in endpoint.forbidden :
        (\A name \in DOMAIN rule.when :
            name \in DOMAIN values /\ values[name].text = rule.when[name])
        => \A name \in rule.forbid : ~HasValue(values, name)

(* client._validate_parameter_ranges *)
RangesHold(endpoint, values) ==
    \A r \in endpoint.ranges :
        {r.start, r.end} \subseteq DOMAIN values =>
            /\ values[r.start].date <= values[r.end].date
            /\ values[r.end].date - values[r.start].date <= r.max

(* client.validate_parameters *)
ValidParameters(endpoint, values) ==
    LET specs == endpoint.specs
    IN /\ DOMAIN values \subseteq DOMAIN specs
       /\ \A name \in DOMAIN specs : specs[name].required => name \in DOMAIN values
       /\ endpoint.anyOf # {} =>
             \E option \in endpoint.anyOf : \A name \in option : HasValue(values, name)
       /\ \A g \in endpoint.exclusive :
             Cardinality({name \in g : HasValue(values, name)}) <= 1
       /\ NoForbiddenCombination(endpoint, values)
       /\ \A name \in DOMAIN values : MatchesSchema(values[name], specs[name])
       /\ RangesHold(endpoint, values)

-----------------------------------------------------------------------------
(* The answers.  A pause is [kind, value]: a duration, or a deadline of    *)
(* the wall clock, found in the Retry-After header or anywhere in the body.*)

CeilToSecond(ticks) == ((ticks + Second - 1) \div Second) * Second

(* rate_limit._duration_or_deadline, _deadline_seconds: 0 stands for None *)
PauseTicks(p, now) ==
    IF p.kind = "duration" THEN p.value
    ELSE IF p.value > now THEN p.value - now ELSE 0

(* rate_limit._collect_penalty_candidates *)
Candidates(header, body, now) ==
    {PauseTicks(p, now) : p \in header \union body} \ {0}

(* rate_limit.parse_penalty_seconds *)
PenaltySeconds(header, body, now) ==
    LET found == Candidates(header, body, now)
    IN IF found = {} THEN Fallback ELSE CeilToSecond(Max(found))

(* The end of the pause that an answer asks for, read from the answer and  *)
(* not with the code's arithmetic.                                         *)
AskedUntil(a, now) ==
    LET named == a.header \union a.body
        ends == {IF p.kind = "duration" THEN now + p.value ELSE p.value : p \in named}
        later == {t \in ends : t > now}
    IN CASE a.status = 429 /\ a.json -> now + Second
         [] a.status = 418 -> IF later = {} THEN now + Fallback ELSE Max(later)
         [] OTHER -> 0

-----------------------------------------------------------------------------
RestInit ==
    /\ clock = 0
    /\ calls = [g \in Groups |-> <<>>]
    /\ blocked = [g \in Groups |-> 0]
    /\ pc = [c \in Calls |-> "new"]
    /\ req = [c \in Calls |-> NoReq]
    /\ wake = [c \in Calls |-> 0]
    /\ answer = [c \in Calls |-> NoAnswer]
    /\ grants = [g \in Groups |-> <<>>]
    /\ owed = [g \in Groups |-> 0]

limiter == <<calls, blocked, grants, owed>>

GroupOf(c) == req[c].endpoint.group

(* A call is over: the thread goes back to the pool. *)
Finish(c) ==
    /\ pc' = [pc EXCEPT ![c] = "done"]
    /\ req' = [req EXCEPT ![c] = NoReq]
    /\ wake' = [wake EXCEPT ![c] = 0]
    /\ answer' = [answer EXCEPT ![c] = NoAnswer]

(* What is refused before the limiter is asked: a missing or wrong         *)
(* operator token (401, 403), an endpoint the catalogue does not name      *)
(* (404), a blocked endpoint (403), bad parameters (422).                  *)
Admitted(r) ==
    /\ r.token = "operator"
    /\ r.known
    /\ r.endpoint.safety \in {"read", "test"}
    /\ ValidParameters(r.endpoint, r.values)

(* require_rest_operator_token, execute_request, and execute up to the     *)
(* rate limiter.                                                           *)
Request(c) ==
    /\ pc[c] = "new"
    /\ \E r \in Requests[c] :
          \/ /\ Admitted(r)
             /\ pc' = [pc EXCEPT ![c] = "acquire"]
             /\ req' = [req EXCEPT ![c] = r]
             /\ UNCHANGED <<wake, answer>>
          \/ /\ ~Admitted(r)
             /\ Finish(c)
    /\ UNCHANGED <<clock, limiter>>

(* The deque after `popleft' of the calls at its front that are as old as   *)
(* age.                                                                    *)
Popped(g, age) ==
    LET old == {n \in 0..Len(calls[g]) : \A i \in 1..n : clock - calls[g][i] >= age}
    IN SubSeq(calls[g], Max(old) + 1, Len(calls[g]))

(* Mutant: a call is forgotten one tick before it leaves the window. *)
ForgetEarly(g) == Popped(g, Window[g] - 1)

(* Mutant: the purge only runs when a call is granted, never to make room. *)
ForgetNothing(g) == calls[g]

(* The calls the purge of acquire keeps. *)
Recent(g) == Popped(g, Window[g])

(* GroupRateLimiter.acquire, one turn of its loop: under the lock the call *)
(* is granted, or the thread learns how long to sleep.                     *)
Acquire(c) ==
    LET g == GroupOf(c)
    IN /\ pc[c] = "acquire"
       /\ wake[c] <= clock
       /\ \/ /\ blocked[g] > clock
             /\ wake' = [wake EXCEPT ![c] = blocked[g]]
             /\ UNCHANGED <<pc, calls, grants>>
          \/ /\ blocked[g] <= clock
             /\ Len(Recent(g)) < Limit[g]
             /\ calls' = [calls EXCEPT ![g] = Append(Recent(g), clock)]
             /\ grants' = [grants EXCEPT ![g] = Append(@, clock)]
             /\ pc' = [pc EXCEPT ![c] = "granted"]
             /\ wake' = [wake EXCEPT ![c] = 0]
          \/ /\ blocked[g] <= clock
             /\ Len(Recent(g)) >= Limit[g]
             /\ calls' = [calls EXCEPT ![g] = Recent(g)]
             /\ wake' = [wake EXCEPT ![c] = Head(Recent(g)) + Window[g]]
             /\ UNCHANGED <<pc, grants>>
       /\ UNCHANGED <<clock, blocked, req, answer, owed>>

(* The credentials are read from the environment and its files at every    *)
(* call of an exchange endpoint; a bad configuration ends the call (503).  *)
NoCredentials(c) ==
    /\ pc[c] = "granted"
    /\ req[c].endpoint.category = "exchange"
    /\ Finish(c)
    /\ UNCHANGED <<clock, limiter>>

(* build_upstream_request: the contract is checked once more. *)
Built(c) == ValidParameters(req[c].endpoint, req[c].values)

(* The request is sent; the client times out (504), or the connection      *)
(* fails (502): nothing is learnt of the limits.                           *)
NoAnswerComes(c) ==
    /\ pc[c] = "granted"
    /\ Built(c)
    /\ Finish(c)
    /\ UNCHANGED <<clock, limiter>>

(* Mutant: a pause replaces the one that is running. *)
ShorterToo(old, new) == new

(* max(self._blocked_until.get(group, 0.0), ...) *)
Longer(old, new) == IF new > old THEN new ELSE old

(* The request is sent and answered; parse_remaining_req and               *)
(* GroupRateLimiter.observe: a header that names a known group and no      *)
(* calls left blocks that group for a second.  The parameters are on the   *)
(* wire and are not looked at again.                                       *)
Observe(c) ==
    /\ pc[c] = "granted"
    /\ Built(c)
    /\ \E a \in Answers[c] :
          /\ answer' = [answer EXCEPT ![c] = a]
          /\ IF a.remaining.group \in Groups /\ a.remaining.sec = 0
             THEN blocked' = [blocked EXCEPT ![a.remaining.group] = Longer(@, clock + Second)]
             ELSE UNCHANGED blocked
    /\ pc' = [pc EXCEPT ![c] = "settle"]
    /\ req' = [req EXCEPT ![c] = [endpoint |-> [group |-> GroupOf(c)]]]
    /\ UNCHANGED <<clock, calls, grants, owed, wake>>

(* The pause execute imposes for an answer, 0 for none: the answer to a    *)
(* 418 counts even when its body is no JSON, the one to a 429 does not.    *)
DeferTicks(a) ==
    CASE a.status = 418 /\ ~a.json -> PenaltySeconds(a.header, {}, clock)
      [] a.status = 418 /\ a.json -> PenaltySeconds(a.header, a.body, clock)
      [] a.status = 429 /\ a.json -> Second
      [] OTHER -> 0

(* GroupRateLimiter.defer *)
Deferred(g, ticks) ==
    [blocked EXCEPT ![g] = Longer(@, clock + ticks)]

(* The rest of execute: the pause, if any, then the answer or the error to *)
(* the console.                                                            *)
Settle(c) ==
    LET a == answer[c]
        g == GroupOf(c)
    IN /\ pc[c] = "settle"
       /\ \/ /\ DeferTicks(a) = 0
             /\ UNCHANGED <<blocked, owed>>
          \/ /\ DeferTicks(a) > 0
             /\ blocked' = Deferred(g, DeferTicks(a))
             /\ owed' = [owed EXCEPT ![g] =
                            Max({@, AskedUntil([a EXCEPT !.body = IF a.json THEN @ ELSE {}],
                                               clock)})]
       /\ Finish(c)
       /\ UNCHANGED <<clock, calls, grants>>

(* Time passes.  After Horizon it only does while a thread sleeps. *)
RestTick ==
    /\ \/ clock < Horizon
       \/ \E c \in Calls : pc[c] = "acquire" /\ wake[c] > clock
    /\ clock' = clock + 1
    /\ UNCHANGED <<limiter, pc, req, wake, answer>>

RestStep(c) ==
    \/ Request(c) \/ Acquire(c) \/ NoCredentials(c)
    \/ NoAnswerComes(c) \/ Observe(c) \/ Settle(c)

AllDone == \A c \in Calls : pc[c] = "done"

RestNext ==
    \/ RestTick
    \/ \E c \in Calls : RestStep(c)
    \/ AllDone /\ UNCHANGED restVars

(* A runnable thread runs; a call of the client ends, by its timeout at    *)
(* the latest; time passes.                                                *)
RestSpec ==
    /\ RestInit /\ [][RestNext]_restVars
    /\ WF_restVars(RestTick) /\ \A c \in Calls : WF_restVars(RestStep(c))

-----------------------------------------------------------------------------
(* However many threads call, no window of a group's length holds more     *)
(* grants than the catalogue's limit (acquire): the deque, cut at each     *)
(* look, never forgets a call that still counts.                           *)
WindowLimit ==
    \A g \in Groups : \A i \in 1..Len(grants[g]) :
        i + Limit[g] <= Len(grants[g]) =>
            grants[g][i + Limit[g]] - grants[g][i] >= Window[g]

(* Once an answer's pause is applied, no call of its group is granted      *)
(* before the longest of the pauses Upbit has named so far is over: not by *)
(* a thread that slept for another reason, and not after a shorter pause   *)
(* or a "sec=0" that came later (acquire, observe, defer,                  *)
(* parse_penalty_seconds).                                                 *)
PenaltyHonoured ==
    [][\A g \in Groups : Len(grants'[g]) > Len(grants[g]) => clock >= owed[g]]_restVars

(* Every request is answered: the sleeps of acquire end, though each may   *)
(* be followed by another.                                                 *)
EveryCallEnds == <>AllDone
=============================================================================
