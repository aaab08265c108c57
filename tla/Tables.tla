------------------------------- MODULE Tables -------------------------------
(***************************************************************************)
(* The tables of the kernel that are searched from the front: users and    *)
(* groups, routes, addresses and variables.                                *)
(***************************************************************************)
EXTENDS Integers, Sequences

(***************************************************************************)
(* The user and group tables of kernel/security/security.c.  A password is *)
(* kept as its hash; the hash is a parameter, and may map two passwords to *)
(* the same value.  Names are short enough to be stored whole.             *)
(***************************************************************************)

CONSTANTS
  MAX_USERS, MAX_GROUPS,
  UserNames, Passwords, Uids, Gids,
  Hash         \* black_sha256_simple: password -> value

NoUser == -1
Root == [name |-> "root", hash |-> Hash["black"], uid |-> 0]

VARIABLES
  users,      \* the active entries of black_users, in the order of the table
  groups      \* the active entries of black_groups: gid and black_members

accounts == <<users, groups>>

\* Entries are never removed, so the free ones follow the others.
\* black_security_init adds the three groups, root, and its membership.
AccountsInit ==
  /\ users = <<Root>>
  /\ groups = <<[gid |-> 0, members |-> <<0>>], [gid |-> 10, members |-> <<>>],
                [gid |-> 100, members |-> <<>>]>>

FirstIn(s, P(_)) ==
  LET hits == {i \in DOMAIN s : P(s[i])}
  IN IF hits = {} THEN 0 ELSE CHOOSE i \in hits : \A j \in hits : i <= j

\* black_user_add and black_group_add.
UserAddUnchecked(n, p, u) ==
  /\ Len(users) < MAX_USERS
  /\ users' = Append(users, [name |-> n, hash |-> Hash[p], uid |-> u])
  /\ UNCHANGED groups
UserAdd(n, p, u) ==
  /\ ~\E i \in DOMAIN users : users[i].uid = u
  /\ Len(users) < MAX_USERS
  /\ users' = Append(users, [name |-> n, hash |-> Hash[p], uid |-> u])
  /\ UNCHANGED groups

GroupAdd(g) ==
  /\ Len(groups) < MAX_GROUPS
  /\ groups' = Append(groups, [gid |-> g, members |-> <<>>])
  /\ UNCHANGED users

\* black_group_add_member: the first group of that number, while it has room.
GroupAddMember(g, u) ==
  LET i == FirstIn(groups, LAMBDA e : e.gid = g) IN
    /\ i # 0 /\ Len(groups[i].members) < MAX_USERS
    /\ groups' = [groups EXCEPT ![i].members = Append(@, u)]
    /\ UNCHANGED users

\* black_user_authenticate, black_user_get_by_uid and black_group_is_member.
Authenticate(n, p) ==
  LET i == FirstIn(users, LAMBDA e : e.name = n)
  IN IF i # 0 /\ users[i].hash = Hash[p] THEN users[i].uid ELSE NoUser
GetByUid(u) == FirstIn(users, LAMBDA e : e.uid = u)
IsMember(g, u) ==
  \E i \in DOMAIN groups :
    groups[i].gid = g /\ \E j \in DOMAIN groups[i].members : groups[i].members[j] = u

AccountsNext ==
  \/ \E n \in UserNames, p \in Passwords, u \in Uids : UserAdd(n, p, u)
  \/ \E g \in Gids : GroupAdd(g) \/ \E u \in Uids : GroupAddMember(g, u)
-----------------------------------------------------------------------------
\* A login answers with the number of the entry it tested: no other entry
\* has that number, so the rights looked up by number are those of the user
\* whose password was given.
LoginNamesOneUser ==
  \A n \in UserNames, p \in Passwords :
    Authenticate(n, p) # NoUser => users[GetByUid(Authenticate(n, p))].name = n

\* Logins and memberships that exist stay, whatever is added later, also
\* under the same name or number.
AccountsStable ==
  /\ \A n \in UserNames, p \in Passwords :
       Authenticate(n, p) # NoUser => Authenticate(n, p)' = Authenticate(n, p)
  /\ \A g \in Gids, u \in Uids : IsMember(g, u) => IsMember(g, u)'
-----------------------------------------------------------------------------
(***************************************************************************)
(* The tables that are searched from the front: the routes of              *)
(* kernel/net/route.c, the address cache of kernel/net/net.c and the       *)
(* environment of kernel/shell/shell_env.c.                                *)
(*                                                                         *)
(* An address is a network and a host.  A mask keeps both, the network, or *)
(* nothing, in which case the masked address is AnyAddress.                *)
(***************************************************************************)

CONSTANTS
  Addresses,          \* pairs of a network and a host
  Gateways, Macs,
  MAX_ROUTES,         \* 32 in the code
  MAX_ARP_CACHE,      \* BLACK_MAX_ARP_CACHE
  MAX_ENV,            \* BLACK_MAX_ENV
  EnvKeys, EnvValues,
  Cut                 \* key -> its first 63 characters

AnyAddress == <<0, 0>>
Masks == {"host", "net", "none"}
Masked(a, m) == CASE m = "host" -> a [] m = "net" -> <<a[1], 0>> [] m = "none" -> AnyAddress
Missing == -1
NoValue == "null"

VARIABLES
  routes,     \* black_routes as far as black_route_count
  arp,        \* the valid entries of black_arp_cache; none is ever removed
  env,        \* black_env as far as black_env_count
  last_set    \* key -> the value it was last given: not in the code

lookupvars == <<routes, arp, env, last_set>>

FirstHit(s, P(_)) ==
  LET hits == {i \in DOMAIN s : P(s[i])}
  IN IF hits = {} THEN 0 ELSE CHOOSE i \in hits : \A j \in hits : i <= j

LookupsInit ==
  /\ routes = <<>> /\ arp = <<>>
  /\ env = <<[key |-> "PATH", value |-> "/bin"], [key |-> "HOME", value |-> "/"],
             [key |-> "SHELL", value |-> "/bin/shell"]>>
  /\ last_set = [k \in EnvKeys |-> NoValue]
-----------------------------------------------------------------------------
\* black_route_add and black_route_lookup: the first match, not the longest
\* mask.
RouteAdd(dst, mask, gw) ==
  /\ Len(routes) < MAX_ROUTES
  /\ routes' = Append(routes, [dst |-> dst, mask |-> mask, gw |-> gw])
  /\ UNCHANGED <<arp, env, last_set>>

RouteFor(a) == FirstHit(routes, LAMBDA r : Masked(a, r.mask) = r.dst)
RouteLookup(a) == IF RouteFor(a) = 0 THEN 0 ELSE routes[RouteFor(a)].gw

\* black_arp_add does not look for the address; black_arp_lookup.
ArpAddFront(a, mac) ==
  /\ Len(arp) < MAX_ARP_CACHE
  /\ arp' = <<[ip |-> a, mac |-> mac]>> \o arp
  /\ UNCHANGED <<routes, env, last_set>>
ArpAdd(a, mac) ==
  /\ Len(arp) < MAX_ARP_CACHE
  /\ arp' = Append(arp, [ip |-> a, mac |-> mac])
  /\ UNCHANGED <<routes, env, last_set>>

ArpLookup(a) ==
  LET i == FirstHit(arp, LAMBDA e : e.ip = a) IN IF i = 0 THEN Missing ELSE arp[i].mac

\* black_shell_env_set: the entry whose key is the whole key gets the value;
\* otherwise a new entry gets the cut key, if there is room.
EnvEntry(k) == FirstHit(env, LAMBDA e : e.key = k)
EnvSet(k, v) ==
  /\ \/ /\ EnvEntry(k) # 0
        /\ env' = [env EXCEPT ![EnvEntry(k)].value = v]
     \/ /\ EnvEntry(k) = 0 /\ Len(env) < MAX_ENV
        /\ env' = Append(env, [key |-> Cut[k], value |-> v])
  /\ last_set' = [last_set EXCEPT ![k] = v]
  /\ UNCHANGED <<routes, arp>>

EnvGet(k) == IF EnvEntry(k) = 0 THEN NoValue ELSE env[EnvEntry(k)].value

RouteStep == \E a \in Addresses, m \in Masks, gw \in Gateways : RouteAdd(Masked(a, m), m, gw)
ArpStep == \E a \in Addresses, mac \in Macs : ArpAdd(a, mac)
EnvStep == \E k \in EnvKeys, v \in EnvValues : EnvSet(k, v)
-----------------------------------------------------------------------------
\* A variable has the value it was last given, if its key is short enough to
\* be stored whole, also when longer keys that begin alike were set.
EnvKeepsLast ==
  \A k \in EnvKeys : Cut[k] = k /\ last_set[k] # NoValue => EnvGet(k) = last_set[k]

\* A route or a hardware address that was found once is found ever after,
\* whatever is added later.
LookupsStable ==
  \A a \in Addresses :
    /\ RouteFor(a) # 0 => RouteLookup(a)' = RouteLookup(a)
    /\ ArpLookup(a) # Missing => ArpLookup(a)' = ArpLookup(a)
=============================================================================
