------------------------------- MODULE ClientTgs -------------------------------
(***************************************************************************)
(* The client's side of the TGS exchange (krb5-protocol/src/tgs.rs) and    *)
(* the credentials functions over it (krb5-client/src/creds.rs): the cache *)
(* lookup, the walk to the service's realm, referrals and their fallbacks, *)
(* and what is put into the cache.  A TGT is known by the realm it serves, *)
(* a service ticket by its name.  The KDC may answer with any member of    *)
(* Replies: a ticket [name, realm, fits], `krbtgt' as its name for a TGT   *)
(* of `realm', where `fits' says that key, nonce, client, times and names  *)
(* agree with each other.                                                  *)
(***************************************************************************)
EXTENDS Integers, Sequences, FiniteSets, SequencesExt

CONSTANTS
    Realms,
    Home,      \* the realm of the cache's TGT (start_realm)
    PathTo,    \* client_realm_path from Home: realm -> sequence of realms
    HostRealm, \* fallback_host_realm: name -> realm or "none"
    Aliases,   \* the candidate names CanonPrinc yields for a name
    Wanted,    \* what is asked for: [name, realm, parts, canon, cachedOnly, noStore]
    Replies,   \* what a KDC may answer
    Cached,    \* the sets of foreign TGTs the cache may hold at the start
    MaxHops    \* REFERRAL_MAX_HOPS

VARIABLES goal, t

vars == <<goal, t>>

Stop(c, r) == [c EXCEPT !.pc = "ended", !.out = r]

Refused(why) == [ok |-> FALSE, why |-> why, name |-> "none"]

(* tgs_round_trip: a reply that opens and agrees with the request, or the  *)
(* error it stands for.                                                    *)
Opened(m) == m.kind = "rep" /\ m.fits

RoundTripError(m) == [m EXCEPT !.kind = IF m.kind = "rep" THEN "error" ELSE m.kind]

Granted(name) == [ok |-> TRUE, why |-> "", name |-> name]

-----------------------------------------------------------------------------
(* tgt_is_off_path and closer_hop *)
After(path, cur) ==
    {path[i] : i \in {j \in DOMAIN path : \E k \in DOMAIN path : path[k] = cur /\ k < j}}

OffPath(c, r) == r \notin After(PathTo[c.dest], c.cur) /\ r # Home

Closer(path, cur, next) ==
    {path[i - 1] : i \in {j \in DOMAIN path : j > 1 /\ path[j] = next /\ path[j - 1] # cur}}

(* get_dest_tgt begins at the TGT for `from'. *)
Destine(c, dest, then) ==
    [c EXCEPT !.pc = "dest", !.dest = dest, !.next = dest, !.then = then, !.hops = 0,
              !.seen = {c.cur}, !.visited = {}, !.offpath = FALSE, !.offs = 0]

(* tgs_inner and tgs_fallback_realm go on with the TGT they have. *)
Arrive(c) ==
    IF c.then = "service"
    THEN [c EXCEPT !.pc = "service", !.hops = 0, !.seen = {Home}]
    ELSE [c EXCEPT !.pc = "plain"]

Hop(c, r) == [c EXCEPT !.pc = "dest", !.cur = r, !.next = c.dest, !.hops = @ + 1]

(* One turn of get_dest_tgt before its request: there already, a TGT of    *)
(* the cache, or a request for `next'.                                     *)
DestTurn(c) ==
    CASE c.hops = MaxHops -> Stop(c, Refused("Referral"))
      [] c.hops < MaxHops /\ c.cur = c.dest -> Arrive(c)
      [] c.hops < MaxHops /\ c.cur # c.dest /\ ~ c.offpath /\ c.next \in c.tgts -> Hop(c, c.next)
      [] OTHER -> [c EXCEPT !.pc = "destSent"]

Dest == t.pc = "dest" /\ t' = DestTurn(t) /\ UNCHANGED goal

(* A KDC error sends the walk to a closer realm of the path. *)
DestError(c) ==
    IF c.offpath \/ Closer(PathTo[c.dest], c.cur, c.next) = {} THEN {Stop(c, Refused("kdc"))}
    ELSE {[c EXCEPT !.pc = "dest", !.next = r, !.hops = @ + 1] :
             r \in Closer(PathTo[c.dest], c.cur, c.next)}

(* asked_for_hop: only the TGT that was asked for is put into the cache. *)
Store(c, r) == IF r = c.next THEN [c EXCEPT !.tgts = @ \cup {r}] ELSE c

(* chase_step: no referral to the start or to a realm it came from. *)
Chased(c, r) ==
    CASE r = Home -> Stop(c, Refused("back at the start"))
      [] r # Home /\ r \in c.seen -> Stop(c, Refused("Referral"))
      [] OTHER -> [c EXCEPT !.seen = @ \cup {r}]

OnPathHop(c, r) == IF c.pc = "ended" THEN c ELSE Hop(Store([c EXCEPT !.visited = @ \cup {r}], r), r)

OnPath(c, r) ==
    CASE r = c.next -> OnPathHop(c, r)
      [] r # c.next /\ r = c.cur -> Stop(c, Refused("Referral"))
      [] OTHER -> OnPathHop(Chased(c, r), r)

(* Once off the path, a realm visited before ends the walk. *)
OffPathHop(c, r) ==
    CASE r \in c.visited -> Stop(c, Refused("Referral"))
      [] r \notin c.visited /\ r = c.dest -> Arrive([c EXCEPT !.cur = r])
      [] r \notin c.visited /\ r # c.dest /\ c.offs >= MaxHops -> Stop(c, Refused("gave up"))
      [] OTHER -> Hop([c EXCEPT !.visited = @ \cup {r}, !.offs = @ + 1], r)

DestReply(c, m) ==
    CASE m.kind = "io" \/ (m.kind = "rep" /\ (~ Opened(m) \/ m.name # "krbtgt")) -> {Stop(c, Refused("Io"))}
      [] m.kind \in {"unknown", "error"} -> DestError(c)
      [] OTHER ->
            {IF c.offpath THEN OffPathHop(c, m.realm)
             ELSE IF OffPath(c, m.realm)
             THEN Hop([c EXCEPT !.visited = @ \cup {m.realm}, !.offpath = TRUE, !.offs = 1], m.realm)
             ELSE OnPath(c, m.realm)}

OnDest == t.pc = "destSent" /\ (\E m \in Replies : t' \in DestReply(t, m)) /\ UNCHANGED goal

-----------------------------------------------------------------------------
(* get_credentials keeps what it got under the name it was asked for. *)
Keep(c, name) == IF goal.noStore THEN c ELSE [c EXCEPT !.svcs = @ \cup {goal.name}]

Grant(c, name) == Stop(Keep(c, name), Granted(name))


(* An unknown server moves on to the next candidate name. *)
Again(c, cand) ==
    [c EXCEPT !.pc = "start", !.cand = cand, !.cur = Home]

NotGranted(c, m) ==
    IF m.kind = "unknown" /\ Len(c.cand) > 1 THEN Again(c, Tail(c.cand))
    ELSE Stop(c, Refused(m.kind))

(* tgs_try_fallback, after an error that is not the transport's. *)
Fallback(c, m) ==
    CASE Cardinality(c.seen) > 1 -> NotGranted(c, m)
      [] Cardinality(c.seen) = 1 /\ goal.realm # "" -> [c EXCEPT !.pc = "plain"]
      [] Cardinality(c.seen) = 1 /\ goal.realm = "" /\ goal.parts < 2 ->
            Stop(c, Refused("host realm unknown"))
      [] OTHER ->
            CASE HostRealm[goal.name] = "none" -> NotGranted(c, m)
              [] HostRealm[goal.name] = Home -> [c EXCEPT !.pc = "plain"]
              [] OTHER -> Destine(c, HostRealm[goal.name], "plain")

Referred(c, r) ==
    IF c.pc = "ended" THEN c
    ELSE IF c.hops + 1 = MaxHops THEN Stop(c, Refused("Referral"))
    ELSE [c EXCEPT !.cur = r, !.hops = @ + 1]


(* step_referrals: a ticket for another service, or for the realm's own    *)
(* TGT, is asked for again without canonicalization.                       *)
StepReferrals(c, m) ==
    CASE m.name = c.cand[1] -> Grant(c, m.name)
      [] m.name # c.cand[1] /\ (m.name # "krbtgt" \/ m.realm = c.cur) -> [c EXCEPT !.pc = "plain"]
      [] OTHER -> Referred(Chased(c, m.realm), m.realm)

ServiceReply(c, m) ==
    CASE m.kind = "io" -> Stop(c, Refused("io"))
      [] Opened(m) -> StepReferrals(c, m)
      [] OTHER -> Fallback(c, RoundTripError(m))

(* tgs_service_once with CANONICALIZE set. *)
OnService ==
    t.pc = "service" /\ (\E m \in Replies : t' = ServiceReply(t, m)) /\ UNCHANGED goal

(* service_non_referral_request: check_reply_server wants the very name,   *)
(* unless canonicalization was asked for.                                  *)
PlainReply(c, m) ==
    IF Opened(m) /\ (m.name = c.cand[1] \/ (goal.canon /\ m.name # "krbtgt"))
    THEN Grant(c, m.name)
    ELSE NotGranted(c, RoundTripError(m))

OnPlain == t.pc = "plain" /\ (\E m \in Replies : t' = PlainReply(t, m)) /\ UNCHANGED goal

-----------------------------------------------------------------------------
Init ==
    /\ goal \in Wanted
    /\ \E foreign \in Cached, held \in BOOLEAN :
         t = [pc |-> "start", cand |-> Aliases[goal.name], cur |-> Home, next |-> Home,
              dest |-> Home, then |-> "service", hops |-> 0, seen |-> {}, visited |-> {},
              offpath |-> FALSE, offs |-> 0, tgts |-> foreign,
              svcs |-> IF held THEN {goal.name} ELSE {}, out |-> Refused("none")]

(* tgt_for: the cached TGT of the service's realm, or the local one. *)
SrealmOf == IF goal.realm = "" THEN Home ELSE goal.realm

Presented(c) ==
    [c EXCEPT !.cur = IF SrealmOf # Home /\ SrealmOf \in c.tgts THEN SrealmOf ELSE Home]

Begin(c) == IF c.cur = SrealmOf THEN Arrive(c) ELSE Destine(c, SrealmOf, "service")

(* get_credentials: the cache first, then a request; a cache without a     *)
(* usable local TGT ends it.                                               *)
GetCredentials ==
    /\ t.pc = "start"
    /\ t' \in CASE goal.name \in t.svcs -> {Stop(t, Granted(goal.name))}
                [] goal.name \notin t.svcs /\ goal.cachedOnly -> {Stop(t, Refused("not found"))}
                [] OTHER -> {Begin(Presented(t)), Stop(t, Refused("no local TGT"))}
    /\ UNCHANGED goal

Next == GetCredentials \/ Dest \/ OnDest \/ OnService \/ OnPlain

Spec == Init /\ [][Next]_vars /\ WF_vars(Next)

-----------------------------------------------------------------------------
(* Whatever the KDCs answer, and however they refer to each other, asking  *)
(* for a ticket ends.                                                      *)
TicketEnds == <>(t.pc = "ended")

(* A ticket that comes out names the service that was asked for, or one of *)
(* its candidate names, unless canonicalization was asked for: a KDC's     *)
(* alias is never passed off for it.                                       *)
ServiceIsAsked == t.out.ok /\ ~ goal.canon => t.out.name \in ToSet(Aliases[goal.name])
=============================================================================
