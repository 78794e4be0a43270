-------------------------------- MODULE Soar --------------------------------
(***************************************************************************)
(* The playbook engine and block_ip (internal/soar/playbook.go, apply.go). *)
(* The bus calls Engine.Process for every event, under the engine's mutex; *)
(* a rule that matches, often enough within its window, runs its actions,  *)
(* and block_ip calls BlockApplier.BlockIP through the hook.  The operator *)
(* screen calls BlockIP directly, at any time: the applier's own mutex     *)
(* guards only the list of results.                                        *)
(***************************************************************************)
EXTENDS Integers, Sequences, FiniteSets, Functions

CONSTANTS
  IP,
  Kind,         \* what decoy and action_match tell apart: a decoy and an action
  Score,        \* the threat scores events have
  Rules,        \* the playbook: a sequence of rules, whose names nobody compares
  Live,         \* --apply or SHINKIRO_SOAR_APPLY=1
  Format,       \* "iptables", "nftables" or "cidr"
  Webhook,      \* a webhook URL is configured
  MaxTime,      \* bound of the model: the clock
  MaxEvents,    \* bound of the model: events processed
  MaxPresses    \* bound of the model: calls by the operator

Rule == [name : STRING, enabled : BOOLEAN,
         kinds : SUBSET Kind,            \* those that pass decoy and action_match
         minScore : Nat,
         threshold : Nat, window : Nat, then : Seq({"block_ip", "alert", "tag"})]

ASSUME SoarAssumption ==
  /\ Rules \in Seq(Rule)
  /\ Live \in BOOLEAN /\ Webhook \in BOOLEAN
  /\ Format \in {"iptables", "nftables", "cidr"}
  /\ MaxTime \in Nat /\ MaxEvents \in Nat /\ MaxPresses \in Nat

Names == {Rules[r].name : r \in DOMAIN Rules}
Limited(r) == r.threshold > 1 /\ r.window > 0

Events == [ip : IP, kind : Kind, score : Score]
Callers == {"bus", "operator"}
NoCall == [stage |-> "none"]

VARIABLES
  now,         \* the clock
  bus,         \* Process: the event, its time, the rule and the action it is at
  call,        \* caller -> where its call of BlockIP is
  history,     \* Engine.history: rule name and address -> times, each under the
               \* number of the evaluation that noted it: the slice keeps this order
  blockedIPs,  \* Engine.blockedIPs
  firewall,    \* IP -> how often a command for it was executed
  posted,      \* webhooks delivered
  last,        \* BlockApplier.last
  evals,       \* history: every rule evaluated for every event, in order
  presses      \* calls of the operator so far

vars == <<now, bus, call, history, blockedIPs, firewall, posted, last, evals, presses>>
applier == <<call, firewall, posted, last>>

Idle == [at |-> "idle"]

-----------------------------------------------------------------------------
Init ==
  /\ now = 0
  /\ bus = Idle
  /\ call = [p \in Callers |-> NoCall]
  /\ history = [n \in Names |-> [ip \in IP |-> <<>>]]
  /\ blockedIPs = {}
  /\ firewall = [ip \in IP |-> 0]
  /\ posted = 0
  /\ last = <<>>
  /\ evals = <<>> /\ presses = 0

Tick ==
  /\ now < MaxTime
  /\ now' = now + 1
  /\ UNCHANGED <<bus, applier, history, blockedIPs, evals, presses>>

\* An enabled rule whose condition holds; min_severity is not looked at.
Matches(r, e) ==
  /\ r.enabled
  /\ e.kind \in r.kinds
  /\ r.minScore > 0 => e.score >= r.minScore

Process(e) ==
  /\ bus = Idle
  /\ Len(evals) < MaxEvents * Len(Rules)
  /\ bus' = [at |-> "rule", ev |-> e, time |-> now, rule |-> 1, act |-> 1]
  /\ UNCHANGED <<now, applier, history, blockedIPs, evals, presses>>

\* Mutant: the cutoff itself is still in the window.
Recent_CutoffIncluded(times, t, window) ==
  Restrict(times, {n \in DOMAIN times : times[n] >= t - window})

\* The times that are still after the cutoff.
Recent(times, t, window) == Restrict(times, {n \in DOMAIN times : times[n] > t - window})

\* The times with one more.
Noted(times, n, t) == [m \in DOMAIN times \cup {n} |-> IF m = n THEN t ELSE times[m]]

\* One turn of Process's loop: match, then the rate window, which is kept under
\* the rule's name and the address, then the actions.
EvalRule ==
  LET r == Rules[bus.rule]
      recent == Noted(Recent(history[r.name][bus.ev.ip], bus.time, r.window),
                      Len(evals) + 1, bus.time)
      matches == Matches(r, bus.ev)
      fires == matches /\ (Limited(r) => Cardinality(DOMAIN recent) >= r.threshold)
  IN  /\ bus.at = "rule" /\ bus.rule <= Len(Rules)
      /\ history' = IF matches /\ Limited(r)
                      THEN [history EXCEPT ![r.name][bus.ev.ip] = recent]
                      ELSE history
      /\ evals' = Append(evals, [rule |-> bus.rule, ev |-> bus.ev, time |-> bus.time,
                                 fired |-> fires])
      /\ bus' = IF fires THEN [bus EXCEPT !.at = "act", !.act = 1]
                         ELSE [bus EXCEPT !.rule = @ + 1]
      /\ UNCHANGED <<now, applier, blockedIPs, presses>>

ProcessReturns ==
  /\ bus.at = "rule" /\ bus.rule > Len(Rules)
  /\ bus' = Idle
  /\ UNCHANGED <<now, applier, history, blockedIPs, evals, presses>>

\* BlockIP begins: a dry run only logs and records.
Begin(p, ip) ==
  IF Live
    THEN /\ call' = [call EXCEPT ![p] = [stage |-> "exec", ip |-> ip]]
         /\ UNCHANGED last
    ELSE /\ last' = Append(last, [ip |-> ip, applied |-> FALSE])
         /\ UNCHANGED call

\* Mutant: the bus goes on with its actions while BlockIP runs.
Act_NotWaiting ==
  LET acts == Rules[bus.rule].then
  IN  /\ bus.at = "act"
      /\ IF bus.act > Len(acts)
           THEN /\ bus' = [bus EXCEPT !.at = "rule", !.rule = @ + 1]
                /\ UNCHANGED <<call, last, blockedIPs>>
           ELSE /\ bus' = [bus EXCEPT !.act = @ + 1]
                /\ IF acts[bus.act] = "block_ip"
                     THEN blockedIPs' = blockedIPs \cup {bus.ev.ip} /\ Begin("bus", bus.ev.ip)
                     ELSE UNCHANGED <<call, last, blockedIPs>>
      /\ UNCHANGED <<now, history, firewall, posted, evals, presses>>

\* executeAction: block_ip remembers the address and calls the hook, whose error
\* is ignored; no alert hook is ever set, and a tag is only reported.
Act ==
  LET acts == Rules[bus.rule].then
  IN  /\ bus.at = "act" /\ call["bus"] = NoCall
      /\ IF bus.act > Len(acts)
           THEN /\ bus' = [bus EXCEPT !.at = "rule", !.rule = @ + 1]
                /\ UNCHANGED <<call, last, blockedIPs>>
           ELSE /\ bus' = [bus EXCEPT !.act = @ + 1]
                /\ IF acts[bus.act] = "block_ip"
                     THEN blockedIPs' = blockedIPs \cup {bus.ev.ip} /\ Begin("bus", bus.ev.ip)
                     ELSE UNCHANGED <<call, last, blockedIPs>>
      /\ UNCHANGED <<now, history, firewall, posted, evals, presses>>

\* The operator presses `b`.
Press(ip) ==
  /\ call["operator"] = NoCall /\ presses < MaxPresses
  /\ presses' = presses + 1
  /\ Begin("operator", ip)
  /\ UNCHANGED <<now, bus, history, blockedIPs, firewall, posted, evals>>

\* Mutant: a command that failed after it took effect is run again.
Exec_Retried(p) ==
  /\ call[p].stage = "exec"
  /\ firewall' = [firewall EXCEPT ![call[p].ip] = @ + 1]
  /\ call' \in {call, [call EXCEPT ![p].stage = "applied"]}
  /\ UNCHANGED <<now, bus, history, blockedIPs, posted, last, evals, presses>>

\* execCommands: the firewall binary runs and succeeds, or fails; the cidr
\* format has nothing to run and succeeds.
Exec(p) ==
  /\ call[p].stage = "exec"
  /\ \/ /\ firewall' = IF Format = "cidr" THEN firewall
                       ELSE [firewall EXCEPT ![call[p].ip] = @ + 1]
        /\ call' = [call EXCEPT ![p].stage = "applied"]
     \/ /\ Format # "cidr"
        /\ call' = [call EXCEPT ![p].stage = "failed"]
        /\ UNCHANGED firewall
  /\ UNCHANGED <<now, bus, history, blockedIPs, posted, last, evals, presses>>

\* The webhook after a success, whose failure only changes the message; then
\* record, under the applier's mutex.
Finish(p) ==
  /\ call[p].stage \in {"applied", "failed"}
  /\ posted' \in {posted} \cup (IF Webhook /\ call[p].stage = "applied" THEN {posted + 1} ELSE {})
  /\ last' = Append(last, [ip |-> call[p].ip, applied |-> call[p].stage = "applied"])
  /\ call' = [call EXCEPT ![p] = NoCall]
  /\ UNCHANGED <<now, bus, history, blockedIPs, firewall, evals, presses>>

BlockIP(p) == Exec(p) \/ Finish(p)
Bus == EvalRule \/ Act \/ ProcessReturns \/ BlockIP("bus")

Next ==
  \/ Tick
  \/ \E e \in Events : Process(e)
  \/ Bus
  \/ \E ip \in IP : Press(ip)
  \/ BlockIP("operator")

Spec == Init /\ [][Next]_vars

-----------------------------------------------------------------------------
BusOK ==
  \/ bus = Idle
  \/ /\ bus \in [at : {"rule", "act"}, ev : Events, time : 0..now,
                 rule : 1..(Len(Rules) + 1), act : Nat \ {0}]
     /\ bus.at = "act" => bus.rule <= Len(Rules) /\ bus.act <= 1 + Len(Rules[bus.rule].then)

CallsOK ==
  /\ call \in [Callers -> {NoCall} \union [stage : {"exec", "applied", "failed"}, ip : IP]]
  /\ \A p \in Callers : call[p] # NoCall => Live
  /\ call["bus"] # NoCall => bus.at = "act"

\* The times of some of the evaluations.
Notes == UNION {[D -> 0..now] : D \in SUBSET DOMAIN evals}

\* Types; no command is run without --apply, and Process returns after its BlockIP.
TypeOK ==
  /\ now \in 0..MaxTime
  /\ BusOK /\ CallsOK
  /\ history \in [Names -> [IP -> Notes]]
  /\ blockedIPs \subseteq IP
  /\ firewall \in [IP -> Nat] /\ posted \in Nat
  /\ last \in Seq([ip : IP, applied : BOOLEAN])
  /\ presses \in 0..MaxPresses

\* Evaluation j noted its time where evaluation i looks: under a rule of the same
\* name, perhaps another rule, and under the same address.
NotedAlike(j, i) ==
  /\ Limited(Rules[evals[j].rule]) /\ Matches(Rules[evals[j].rule], evals[j].ev)
  /\ Rules[evals[j].rule].name = Rules[evals[i].rule].name
  /\ evals[j].ev.ip = evals[i].ev.ip

\* What counts for evaluation i: the matches alike, itself included, that were
\* still in the window of every match alike since.
InWindows(i) ==
  {j \in 1..i : /\ NotedAlike(j, i)
                /\ \A k \in (j + 1)..i :
                     NotedAlike(k, i) =>
                       evals[k].time - evals[j].time < Rules[evals[k].rule].window}

\* A rate-limited rule fires at an event exactly when at least `threshold` of the
\* address's matches are in the window, although nothing is reset when it fires.
\* Rules of one name share what they note, and may forget for each other
\* (playbook.go:113-131); where they have one window, and so for a rule with a name
\* of its own, what counts are the matches of the last `window` seconds.
FiresExactlyInWindow ==
  \A i \in DOMAIN evals :
    LET v == evals[i]
        r == Rules[v.rule]
        oneWindow == \A q \in DOMAIN Rules : Rules[q].name = r.name /\ Limited(Rules[q])
                                               => Rules[q].window = r.window
    IN  /\ v.fired <=> /\ Matches(r, v.ev)
                       /\ Limited(r) => Cardinality(InWindows(i)) >= r.threshold
        /\ Matches(r, v.ev) /\ Limited(r) /\ oneWindow =>
             InWindows(i) = {j \in 1..i : NotedAlike(j, i) /\ v.time - evals[j].time < r.window}

\* Whatever the bus and the operator do at the same time, the list of results is
\* an account of the firewall: for each address as many successes as commands
\* executed, but for calls that have executed and not yet recorded
\* (apply.go:126-170, 189-193).
ResultsAccountForFirewall ==
  \A ip \in IP :
    Format # "cidr" =>
      firewall[ip] = Cardinality({i \in DOMAIN last : last[i] = [ip |-> ip, applied |-> TRUE]})
                       + Cardinality({p \in Callers :
                                        call[p] = [stage |-> "applied", ip |-> ip]})

=============================================================================
