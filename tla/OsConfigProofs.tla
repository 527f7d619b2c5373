--------------------------- MODULE OsConfigProofs ---------------------------
(***************************************************************************)
(* Theorems about OsConfig, for any addresses, any systems, any number of  *)
(* commands, faults, kills and reboots.                                    *)
(***************************************************************************)
EXTENDS OsConfig, SequenceTheorems, TLAPS

(***************************************************************************)
(* The plans.  The proofs below know a plan only by what its steps may do, *)
(* and by what comes before a reload and before a change of a policy key.  *)
(***************************************************************************)
\* The plan of a phase of a command a, on system o with resolver w and --browser-policy b.
PlanOf(p, a, o, w, b) ==
  CASE p = "execute" -> IF a = "configure" THEN configure_resolver_steps[o][w]
                        ELSE unconfigure_resolver_steps[o]
    [] p = "browser" -> IF a = "unconfigure" THEN remove_browser_policy[o]
                        ELSE IF b THEN apply_browser_policy[o] ELSE <<>>
    [] OTHER -> <<>>

Queries == {"query", "query_ours"}

ConfigureStep(o, s) ==
  /\ s.op \in {"write", "write_unmanaged", "reload", "flush", "alias", "bootout", "bootstrap",
               "enable", "nrpt_add", "query", "add", "record"}
  /\ s.op = "write" => s.at \in FilesOf(o) /\ s.at \in Files /\ s.at \notin ManagedPrefs
  /\ s.op = "write_unmanaged" => s.at = "chrome_plist" /\ o = "macos"
  /\ s.op = "reload" => s.at \in Daemons
  /\ s.op = "nrpt_add" => o = "windows"
  /\ s.op \in {"query", "add", "record"} => s.at \in Keys /\ o = "windows"
  /\ s.op = "add" => s.value \in {"doh", "builtin", "marker"}

UnconfigureStep(s) ==
  /\ s.op \in {"remove_ours", "remove_on_sight", "reload", "flush", "-alias", "bootout",
               "nrpt_remove", "query_ours", "delete", "record"}
  /\ s.op = "remove_ours" => s.at \in Files
  /\ s.op = "remove_on_sight" => s.at \in PolicyFiles
  /\ s.op = "reload" => s.at \in Daemons
  /\ s.op \in {"query_ours", "delete", "record"} => s.at \in Keys
  /\ s.op = "delete" => s.value \in {"doh", "builtin", "marker", "legacy"}

\* What every step of a plan may do.
Allowed(P, a, o) ==
  \A i \in 1..Len(P) : IF a = "configure" THEN ConfigureStep(o, P[i]) ELSE UnconfigureStep(P[i])

\* A daemon is told to reload after its drop-in is removed; a key is asked about before it
\* is written to or cleared.
Ordered(P, a) ==
  \A i \in 1..Len(P) :
    /\ P[i].op = "reload" /\ a = "unconfigure" =>
         \E j \in 1..i - 1 : P[j].op = "remove_ours" /\ P[j].at = P[i].at
    /\ P[i].op \in {"add", "delete"} =>
         \E j \in 1..i - 1 : P[j].op \in Queries /\ P[j].at = P[i].at

LEMMA EmptyPlan ==
  ASSUME NEW a, NEW o
  PROVE  Len(<<>>) = 0 /\ Allowed(<<>>, a, o) /\ Ordered(<<>>, a)
BY DEF Allowed, Ordered

LEMMA ConfigureLinux ==
  ASSUME NEW w \in Owners, NEW P, P = configure_resolver_steps["linux"][w]
  PROVE  /\ Len(P) \in Nat /\ Allowed(P, "configure", "linux") /\ Ordered(P, "configure")
         /\ \A i \in 1..Len(P) : /\ P[i].op \in {"write", "reload", "flush"}
                                 /\ P[i].op = "write" => P[i].at = w /\ w \in Daemons
<1>1. CASE w = "resolved_dropin"
  <2>1. P = <<[op |-> "write", at |-> "resolved_dropin", value |-> "-"],
              [op |-> "reload", at |-> "resolved_dropin", value |-> "-"],
              [op |-> "flush", at |-> "-", value |-> "-"]>>
    BY <1>1 DEF configure_resolver_steps, Systems, Owners, Step, write, exec
  <2>2. /\ Len(P) = 3
        /\ P[1].op = "write" /\ P[1].at = "resolved_dropin"
        /\ P[2].op = "reload" /\ P[2].at = "resolved_dropin"
        /\ P[3].op = "flush"
    BY <2>1
  <2>3. QED BY <1>1, <2>2 DEF Allowed, Ordered, ConfigureStep, FilesOf, Files, Daemons, ManagedPrefs
<1>2. CASE w = "nm_conf"
  <2>1. P = <<[op |-> "write", at |-> "nm_conf", value |-> "-"],
              [op |-> "reload", at |-> "nm_conf", value |-> "-"]>>
    BY <1>2 DEF configure_resolver_steps, Systems, Owners, Step, write, exec
  <2>2. /\ Len(P) = 2
        /\ P[1].op = "write" /\ P[1].at = "nm_conf"
        /\ P[2].op = "reload" /\ P[2].at = "nm_conf"
    BY <2>1
  <2>3. QED BY <1>2, <2>2 DEF Allowed, Ordered, ConfigureStep, FilesOf, Files, Daemons, ManagedPrefs
<1>3. CASE w = "unknown"
  <2>1. P = <<>>
    BY <1>3 DEF configure_resolver_steps, Systems, Owners
  <2>2. QED BY <2>1, EmptyPlan
<1>4. QED BY <1>1, <1>2, <1>3 DEF Owners

LEMMA ConfigureMac ==
  ASSUME NEW w \in Owners, NEW P, P = configure_resolver_steps["macos"][w]
  PROVE  Len(P) \in Nat /\ Allowed(P, "configure", "macos") /\ Ordered(P, "configure")
<1>1. P = <<[op |-> "alias", at |-> "-", value |-> "-"],
            [op |-> "write", at |-> "lo0_plist", value |-> "-"],
            [op |-> "bootout", at |-> "-", value |-> "-"],
            [op |-> "bootstrap", at |-> "lo0_plist", value |-> "-"],
            [op |-> "enable", at |-> "-", value |-> "-"],
            [op |-> "write", at |-> "resolver_file", value |-> "-"],
            [op |-> "flush", at |-> "-", value |-> "-"],
            [op |-> "flush", at |-> "-", value |-> "-"]>>
  BY DEF configure_resolver_steps, Systems, Step, write, exec
<1>2. /\ Len(P) = 8
      /\ P[1].op = "alias" /\ P[2].op = "write" /\ P[2].at = "lo0_plist"
      /\ P[3].op = "bootout" /\ P[4].op = "bootstrap" /\ P[5].op = "enable"
      /\ P[6].op = "write" /\ P[6].at = "resolver_file"
      /\ P[7].op = "flush" /\ P[8].op = "flush"
  BY <1>1
<1>3. \A f \in {"lo0_plist", "resolver_file"} :
        f \in FilesOf("macos") /\ f \in Files /\ f \notin ManagedPrefs
  BY DEF FilesOf, Files, Resolvers, ManagedPrefs
<1>4. QED BY <1>2, <1>3 DEF Allowed, Ordered, ConfigureStep

LEMMA ConfigureWindows ==
  ASSUME NEW w \in Owners, NEW P, P = configure_resolver_steps["windows"][w]
  PROVE  Len(P) \in Nat /\ Allowed(P, "configure", "windows") /\ Ordered(P, "configure")
<1>1. P = <<[op |-> "nrpt_add", at |-> "nrpt", value |-> "-"],
            [op |-> "flush", at |-> "-", value |-> "-"]>>
  BY DEF configure_resolver_steps, Systems, Step, exec
<1>2. Len(P) = 2 /\ P[1].op = "nrpt_add" /\ P[2].op = "flush"
  BY <1>1
<1>3. QED BY <1>2 DEF Allowed, Ordered, ConfigureStep

\* A plan has a step of this kind on this file.
Has(P, op, f) == \E i \in 1..Len(P) : P[i].op = op /\ P[i].at = f

LEMMA UnconfigureLinux ==
  ASSUME NEW P, P = unconfigure_resolver_steps["linux"]
  PROVE  /\ Len(P) \in Nat /\ Allowed(P, "unconfigure", "linux") /\ Ordered(P, "unconfigure")
         /\ \A d \in Daemons : Has(P, "remove_ours", d) /\ Has(P, "reload", d)
<1>1. P = <<[op |-> "remove_ours", at |-> "resolved_dropin", value |-> "-"],
            [op |-> "reload", at |-> "resolved_dropin", value |-> "-"],
            [op |-> "flush", at |-> "-", value |-> "-"],
            [op |-> "remove_ours", at |-> "nm_conf", value |-> "-"],
            [op |-> "reload", at |-> "nm_conf", value |-> "-"]>>
  BY DEF unconfigure_resolver_steps, Systems, Step, remove_ours, exec
<1>2. /\ Len(P) = 5
      /\ P[1].op = "remove_ours" /\ P[1].at = "resolved_dropin"
      /\ P[2].op = "reload" /\ P[2].at = "resolved_dropin"
      /\ P[3].op = "flush"
      /\ P[4].op = "remove_ours" /\ P[4].at = "nm_conf"
      /\ P[5].op = "reload" /\ P[5].at = "nm_conf"
  BY <1>1
<1>3. Allowed(P, "unconfigure", "linux")
  BY <1>2 DEF Allowed, UnconfigureStep, Files, Daemons
<1>4. Ordered(P, "unconfigure")
  <2> SUFFICES ASSUME NEW i \in 1..Len(P)
      PROVE  /\ P[i].op = "reload" =>
                  \E j \in 1..i - 1 : P[j].op = "remove_ours" /\ P[j].at = P[i].at
             /\ P[i].op \notin {"add", "delete"}
    BY DEF Ordered
  <2>1. P[i].op \notin {"add", "delete"} /\ (P[i].op = "reload" => i = 2 \/ i = 5)
    BY <1>2
  <2>2. CASE i = 2
    <3>1. 1 \in 1..i - 1 /\ P[1].op = "remove_ours" /\ P[1].at = P[i].at
      BY <1>2, <2>2
    <3>2. QED BY <2>1, <3>1
  <2>3. CASE i = 5
    <3>1. 4 \in 1..i - 1 /\ P[4].op = "remove_ours" /\ P[4].at = P[i].at
      BY <1>2, <2>3
    <3>2. QED BY <2>1, <3>1
  <2>4. QED BY <2>1, <2>2, <2>3
<1>5. 1 \in 1..Len(P) /\ 2 \in 1..Len(P) /\ 4 \in 1..Len(P) /\ 5 \in 1..Len(P)
  BY <1>2
<1>6. \A d \in Daemons : Has(P, "remove_ours", d) /\ Has(P, "reload", d)
  BY <1>2, <1>5, Zenon DEF Has, Daemons
<1>7. QED BY <1>2, <1>3, <1>4, <1>6

LEMMA UnconfigureMac ==
  ASSUME NEW P, P = unconfigure_resolver_steps["macos"]
  PROVE  /\ Len(P) \in Nat /\ Allowed(P, "unconfigure", "macos") /\ Ordered(P, "unconfigure")
         /\ Has(P, "remove_ours", "lo0_plist") /\ Has(P, "remove_ours", "resolver_file")
<1>1. P = <<[op |-> "bootout", at |-> "-", value |-> "-"],
            [op |-> "remove_ours", at |-> "lo0_plist", value |-> "-"],
            [op |-> "-alias", at |-> "-", value |-> "-"],
            [op |-> "remove_ours", at |-> "resolver_file", value |-> "-"],
            [op |-> "flush", at |-> "-", value |-> "-"],
            [op |-> "flush", at |-> "-", value |-> "-"]>>
  BY DEF unconfigure_resolver_steps, Systems, Step, remove_ours, exec
<1>2. /\ Len(P) = 6
      /\ P[1].op = "bootout" /\ P[2].op = "remove_ours" /\ P[2].at = "lo0_plist"
      /\ P[3].op = "-alias" /\ P[4].op = "remove_ours" /\ P[4].at = "resolver_file"
      /\ P[5].op = "flush" /\ P[6].op = "flush"
  BY <1>1
<1>3. Allowed(P, "unconfigure", "macos") /\ Ordered(P, "unconfigure")
  BY <1>2 DEF Allowed, Ordered, UnconfigureStep, Files, Resolvers
<1>4. 2 \in 1..Len(P) /\ 4 \in 1..Len(P)
  BY <1>2
<1>5. Has(P, "remove_ours", "lo0_plist") /\ Has(P, "remove_ours", "resolver_file")
  BY <1>2, <1>4, Zenon DEF Has
<1>6. QED BY <1>2, <1>3, <1>5

LEMMA UnconfigureWindows ==
  ASSUME NEW P, P = unconfigure_resolver_steps["windows"]
  PROVE  /\ Len(P) \in Nat /\ Allowed(P, "unconfigure", "windows")
         /\ Ordered(P, "unconfigure") /\ Has(P, "nrpt_remove", "nrpt")
<1>1. P = <<[op |-> "nrpt_remove", at |-> "nrpt", value |-> "-"],
            [op |-> "flush", at |-> "-", value |-> "-"]>>
  BY DEF unconfigure_resolver_steps, Systems, Step, exec
<1>2. Len(P) = 2 /\ P[1].op = "nrpt_remove" /\ P[1].at = "nrpt" /\ P[2].op = "flush"
  BY <1>1
<1>3. 1 \in 1..Len(P)
  BY <1>2
<1>4. Has(P, "nrpt_remove", "nrpt")
  BY <1>2, <1>3, Zenon DEF Has
<1>5. QED BY <1>2, <1>4 DEF Allowed, Ordered, UnconfigureStep

LEMMA ApplyFiles ==
  ASSUME NEW o \in {"linux", "macos"}, NEW P, P = apply_browser_policy[o]
  PROVE  Len(P) \in Nat /\ Allowed(P, "configure", o) /\ Ordered(P, "configure")
<1>1. CASE o = "linux"
  <2>1. P = <<[op |-> "write", at |-> "chrome_policy", value |-> "-"],
              [op |-> "write", at |-> "chromium_policy", value |-> "-"]>>
    BY <1>1 DEF apply_browser_policy, Systems, Step, write
  <2>2. /\ Len(P) = 2 /\ P[1].op = "write" /\ P[1].at = "chrome_policy"
        /\ P[2].op = "write" /\ P[2].at = "chromium_policy"
    BY <2>1
  <2>3. QED
    BY <1>1, <2>2 DEF Allowed, Ordered, ConfigureStep, FilesOf, Files, PolicyFiles, ManagedPrefs
<1>2. CASE o = "macos"
  <2>1. P = <<[op |-> "write_unmanaged", at |-> "chrome_plist", value |-> "-"]>>
    BY <1>2 DEF apply_browser_policy, Systems, Step
  <2>2. Len(P) = 1 /\ P[1].op = "write_unmanaged" /\ P[1].at = "chrome_plist"
    BY <2>1
  <2>3. QED BY <1>2, <2>2 DEF Allowed, Ordered, ConfigureStep
<1>3. QED BY <1>1, <1>2

LEMMA RemoveFiles ==
  ASSUME NEW o \in {"linux", "macos"}, NEW P, P = remove_browser_policy[o]
  PROVE  /\ Len(P) \in Nat /\ Allowed(P, "unconfigure", o) /\ Ordered(P, "unconfigure")
         /\ o = "linux" => \A f \in PolicyFiles : Has(P, "remove_on_sight", f)
         /\ o = "macos" => Has(P, "remove_ours", "chrome_plist")
<1>1. CASE o = "linux"
  <2>1. P = <<[op |-> "remove_on_sight", at |-> "chrome_policy", value |-> "-"],
              [op |-> "remove_on_sight", at |-> "chromium_policy", value |-> "-"]>>
    BY <1>1 DEF remove_browser_policy, Systems, Step, remove_on_sight
  <2>2. /\ Len(P) = 2 /\ P[1].op = "remove_on_sight" /\ P[1].at = "chrome_policy"
        /\ P[2].op = "remove_on_sight" /\ P[2].at = "chromium_policy"
    BY <2>1
  <2>3. Allowed(P, "unconfigure", "linux") /\ Ordered(P, "unconfigure")
    BY <2>2 DEF Allowed, Ordered, UnconfigureStep, PolicyFiles
  <2>4. 1 \in 1..Len(P) /\ 2 \in 1..Len(P)
    BY <2>2
  <2>5. \A f \in PolicyFiles : Has(P, "remove_on_sight", f)
    BY <2>2, <2>4, Zenon DEF Has, PolicyFiles
  <2>6. QED BY <1>1, <2>2, <2>3, <2>5
<1>2. CASE o = "macos"
  <2>1. P = <<[op |-> "remove_ours", at |-> "chrome_plist", value |-> "-"]>>
    BY <1>2 DEF remove_browser_policy, Systems, Step, remove_ours
  <2>2. Len(P) = 1 /\ P[1].op = "remove_ours" /\ P[1].at = "chrome_plist"
    BY <2>1
  <2>3. Allowed(P, "unconfigure", "macos") /\ Ordered(P, "unconfigure")
    BY <2>2 DEF Allowed, Ordered, UnconfigureStep, Files, ManagedPrefs
  <2>4. 1 \in 1..Len(P)
    BY <2>2
  <2>5. Has(P, "remove_ours", "chrome_plist")
    BY <2>2, <2>4, Zenon DEF Has
  <2>6. QED BY <1>2, <2>2, <2>3, <2>5
<1>3. QED BY <1>1, <1>2

(***************************************************************************)
(* The plans for the registry are put together from one plan for each key. *)
(***************************************************************************)
KeyStep == [op : Queries \cup {"add", "delete", "record"}, at : Keys,
            value : {"-", "doh", "builtin", "marker", "legacy"}]

\* t is s followed by p.
Joins(t, s, p) ==
  /\ Len(t) = Len(s) + Len(p) /\ Len(s) \in Nat /\ Len(p) \in Nat
  /\ \A i \in 1..Len(s) : t[i] = s[i]
  /\ \A i \in 1..Len(p) : t[Len(s) + i] = p[i]
  /\ \A i \in 1..Len(t) : i > Len(s) => i - Len(s) \in 1..Len(p) /\ t[i] = p[i - Len(s)]

LEMMA ConcatIs ==
  ASSUME NEW S, NEW s \in Seq(S), NEW p \in Seq(S)
  PROVE  s \o p \in Seq(S) /\ Joins(s \o p, s, p)
<1> DEFINE u == s \o p
<1>1. /\ u \in Seq(S) /\ Len(u) = Len(s) + Len(p)
      /\ \A i \in 1..Len(s) + Len(p) :
           u[i] = IF i <= Len(s) THEN s[i] ELSE p[i - Len(s)]
  BY ConcatProperties, Zenon
<1> HIDE DEF u
<1>2. Len(s) \in Nat /\ Len(p) \in Nat
  OBVIOUS
<1>3. \A i \in 1..Len(s) : u[i] = s[i]
  BY <1>1, <1>2
<1>4. ASSUME NEW i \in 1..Len(p) PROVE u[Len(s) + i] = p[i]
  <2> DEFINE j == Len(s) + i
  <2>1. j \in 1..Len(s) + Len(p) /\ ~(j <= Len(s)) /\ j - Len(s) = i
    BY <1>2
  <2> HIDE DEF j
  <2>2. u[j] = p[i]
    BY <1>1, <2>1
  <2>3. QED BY <2>2 DEF j
<1>5. \A i \in 1..Len(u) : i > Len(s) => i - Len(s) \in 1..Len(p) /\ u[i] = p[i - Len(s)]
  BY <1>1, <1>2
<1>6. u \in Seq(S) /\ Joins(u, s, p)
  BY <1>1, <1>2, <1>3, <1>4, <1>5 DEF Joins
<1>7. QED BY <1>6, Zenon DEF u

\* The plan deletes value v of key k.
Deletes(P, k, v) == \E i \in 1..Len(P) : P[i].op = "delete" /\ P[i].at = k /\ P[i].value = v

LEMMA JoinedPlans ==
  ASSUME NEW a \in {"configure", "unconfigure"}, NEW P \in Seq(KeyStep), NEW Q \in Seq(KeyStep),
         Allowed(P, a, "windows"), Ordered(P, a), Allowed(Q, a, "windows"), Ordered(Q, a),
         NEW R, R = P \o Q
  PROVE  /\ R \in Seq(KeyStep) /\ Len(R) \in Nat
         /\ Allowed(R, a, "windows") /\ Ordered(R, a)
         /\ \A k, v : Deletes(P, k, v) \/ Deletes(Q, k, v) => Deletes(R, k, v)
<1>1. /\ R \in Seq(KeyStep) /\ Len(R) = Len(P) + Len(Q)
      /\ Len(P) \in Nat /\ Len(Q) \in Nat
      /\ \A i \in 1..Len(P) : R[i] = P[i]
      /\ \A i \in 1..Len(Q) : R[Len(P) + i] = Q[i]
      /\ \A i \in 1..Len(R) : i > Len(P) => i - Len(P) \in 1..Len(Q) /\ R[i] = Q[i - Len(P)]
  <2>1. R \in Seq(KeyStep) /\ Joins(R, P, Q)
    BY ConcatIs, Zenon
  <2>2. QED BY <2>1 DEF Joins
<1>2. Allowed(R, a, "windows")
  <2> SUFFICES ASSUME NEW i \in 1..Len(R)
      PROVE  IF a = "configure" THEN ConfigureStep("windows", R[i]) ELSE UnconfigureStep(R[i])
    BY DEF Allowed
  <2>1. CASE i <= Len(P)
    <3>1. i \in 1..Len(P) /\ R[i] = P[i]
      BY <1>1, <2>1
    <3>2. QED BY <3>1 DEF Allowed
  <2>2. CASE i > Len(P)
    <3>1. i - Len(P) \in 1..Len(Q) /\ R[i] = Q[i - Len(P)]
      BY <1>1, <2>2
    <3>2. QED BY <3>1 DEF Allowed
  <2>3. QED BY <1>1, <2>1, <2>2
<1>3. Ordered(R, a)
  <2> DEFINE Before1(T, i, ops) == \E j \in 1..i - 1 : T[j].op \in ops /\ T[j].at = T[i].at
  <2> SUFFICES ASSUME NEW i \in 1..Len(R)
      PROVE  /\ R[i].op = "reload" /\ a = "unconfigure" =>
                  \E j \in 1..i - 1 : R[j].op = "remove_ours" /\ R[j].at = R[i].at
             /\ R[i].op \in {"add", "delete"} =>
                  \E j \in 1..i - 1 : R[j].op \in Queries /\ R[j].at = R[i].at
    BY DEF Ordered
  <2>1. SUFFICES /\ R[i].op = "reload" /\ a = "unconfigure" => Before1(R, i, {"remove_ours"})
                 /\ R[i].op \in {"add", "delete"} => Before1(R, i, Queries)
    OBVIOUS
  <2>2. CASE i <= Len(P)
    <3>1. i \in 1..Len(P) /\ \A j \in 1..i : R[j] = P[j]
      BY <1>1, <2>2
    <3>2. ASSUME NEW ops, Before1(P, i, ops) PROVE Before1(R, i, ops)
      <4>1. PICK j \in 1..i - 1 : P[j].op \in ops /\ P[j].at = P[i].at
        BY <3>2
      <4>2. R[j] = P[j] /\ R[i] = P[i]
        BY <3>1
      <4>3. QED BY <4>1, <4>2
    <3>3. R[i] = P[i]
      BY <3>1
    <3>4. /\ P[i].op = "reload" /\ a = "unconfigure" => Before1(P, i, {"remove_ours"})
          /\ P[i].op \in {"add", "delete"} => Before1(P, i, Queries)
      BY <3>1 DEF Ordered
    <3> HIDE DEF Before1
    <3>5. QED BY <3>2, <3>3, <3>4
  <2>3. CASE i > Len(P)
    <3> DEFINE n == i - Len(P)
    <3>1. n \in 1..Len(Q) /\ R[i] = Q[n]
      BY <1>1, <2>3
    <3>2. ASSUME NEW ops, Before1(Q, n, ops) PROVE Before1(R, i, ops)
      <4>1. PICK j \in 1..n - 1 : Q[j].op \in ops /\ Q[j].at = Q[n].at
        BY <3>2
      <4>2. j \in 1..Len(Q) /\ Len(P) + j \in 1..i - 1
        BY <1>1, <3>1, <4>1
      <4>3. R[Len(P) + j] = Q[j]
        BY <1>1, <4>2
      <4>4. QED BY <3>1, <4>1, <4>2, <4>3
    <3>3. /\ Q[n].op = "reload" /\ a = "unconfigure" => Before1(Q, n, {"remove_ours"})
          /\ Q[n].op \in {"add", "delete"} => Before1(Q, n, Queries)
      BY <3>1 DEF Ordered
    <3> HIDE DEF Before1, n
    <3>4. QED BY <3>1, <3>2, <3>3
  <2>4. QED BY <1>1, <2>2, <2>3
<1>4. ASSUME NEW k, NEW v, Deletes(P, k, v) \/ Deletes(Q, k, v) PROVE Deletes(R, k, v)
  <2>1. CASE Deletes(P, k, v)
    <3>1. PICK i \in 1..Len(P) : P[i].op = "delete" /\ P[i].at = k /\ P[i].value = v
      BY <2>1 DEF Deletes
    <3>2. i \in 1..Len(R) /\ R[i] = P[i]
      BY <1>1
    <3>3. QED BY <3>1, <3>2 DEF Deletes
  <2>2. CASE Deletes(Q, k, v)
    <3>1. PICK i \in 1..Len(Q) : Q[i].op = "delete" /\ Q[i].at = k /\ Q[i].value = v
      BY <2>2 DEF Deletes
    <3>2. Len(P) + i \in 1..Len(R) /\ R[Len(P) + i] = Q[i]
      BY <1>1
    <3>3. QED BY <3>1, <3>2 DEF Deletes
  <2>3. QED BY <1>4, <2>1, <2>2
<1>5. QED BY <1>1, <1>2, <1>3, <1>4

LEMMA ApplyKey ==
  ASSUME NEW k \in Keys, NEW P, P = apply_windows_browser_policy(k)
  PROVE  P \in Seq(KeyStep) /\ Allowed(P, "configure", "windows") /\ Ordered(P, "configure")
<1> DEFINE q == <<Step("query", k, "-")>>
           a == reg_add_policy_args(k)
           r == <<Step("record", k, "-")>>
           b == q \o a
<1>1. /\ q \in Seq(KeyStep) /\ Len(q) = 1 /\ q[1].op = "query" /\ q[1].at = k
      /\ r \in Seq(KeyStep) /\ Len(r) = 1 /\ r[1].op = "record" /\ r[1].at = k
  BY DEF Step, KeyStep, Queries
<1>2. /\ a \in Seq(KeyStep) /\ Len(a) = 3
      /\ \A i \in 1..3 : a[i].op = "add" /\ a[i].at = k /\ a[i].value \in {"doh", "builtin", "marker"}
  BY DEF reg_add_policy_args, Step, KeyStep, Queries
<1>3. P = b \o r
  BY DEF apply_windows_browser_policy
<1>4. b = q \o a
  OBVIOUS
<1> HIDE DEF q, a, r, b
<1>5. b \in Seq(KeyStep) /\ Joins(b, q, a)
  BY <1>1, <1>2, <1>4, ConcatIs, Zenon
<1>6. P \in Seq(KeyStep) /\ Joins(P, b, r)
  BY <1>1, <1>3, <1>5, ConcatIs, Zenon
<1>7. Len(b) = 4 /\ b[1] = q[1] /\ b[2] = a[1] /\ b[3] = a[2] /\ b[4] = a[3]
  BY <1>1, <1>2, <1>5 DEF Joins
<1>8. Len(P) = 5 /\ P[1] = q[1] /\ P[2] = a[1] /\ P[3] = a[2] /\ P[4] = a[3] /\ P[5] = r[1]
  BY <1>1, <1>6, <1>7 DEF Joins
<1>9. /\ P[1].op = "query" /\ P[5].op = "record"
      /\ \A i \in 2..4 : P[i].op = "add" /\ P[i].value \in {"doh", "builtin", "marker"}
      /\ \A i \in 1..5 : P[i].at = k
  BY <1>1, <1>2, <1>8
<1>10. Allowed(P, "configure", "windows")
  BY <1>8, <1>9 DEF Allowed, ConfigureStep
<1>11. Ordered(P, "configure")
  <2> SUFFICES ASSUME NEW i \in 1..Len(P), P[i].op \in {"add", "delete"}
      PROVE  \E j \in 1..i - 1 : P[j].op \in Queries /\ P[j].at = P[i].at
    BY DEF Ordered
  <2>1. i \in 1..5 /\ i # 1
    BY <1>8, <1>9
  <2>2. 1 \in 1..i - 1 /\ P[1].op \in Queries /\ P[1].at = P[i].at
    BY <1>9, <2>1 DEF Queries
  <2>3. QED BY <2>2
<1>12. QED BY <1>6, <1>10, <1>11

LEMMA RemoveKey ==
  ASSUME NEW k \in Keys, NEW P, P = remove_windows_browser_policy(k)
  PROVE  /\ P \in Seq(KeyStep) /\ Allowed(P, "unconfigure", "windows")
         /\ Ordered(P, "unconfigure")
         /\ Deletes(P, k, "marker") /\ Deletes(P, k, "legacy")
<1>1. /\ P \in Seq(KeyStep) /\ Len(P) = 6
      /\ P[1].op = "query_ours" /\ P[6].op = "record"
      /\ \A i \in 2..5 : P[i].op = "delete"
      /\ P[2].value = "doh" /\ P[3].value = "builtin" /\ P[4].value = "marker"
      /\ P[5].value = "legacy"
      /\ \A i \in 1..6 : P[i].at = k
  BY DEF remove_windows_browser_policy, Step, KeyStep, Queries
<1>2. Allowed(P, "unconfigure", "windows")
  BY <1>1 DEF Allowed, UnconfigureStep
<1>3. Ordered(P, "unconfigure")
  <2> SUFFICES ASSUME NEW i \in 1..Len(P)
      PROVE  /\ P[i].op # "reload"
             /\ P[i].op \in {"add", "delete"} =>
                  \E j \in 1..i - 1 : P[j].op \in Queries /\ P[j].at = P[i].at
    BY DEF Ordered
  <2>1. i \in 1..6 /\ P[i].op # "reload" /\ (P[i].op \in {"add", "delete"} => i # 1)
    BY <1>1
  <2>2. CASE i # 1
    <3>1. 1 \in 1..i - 1 /\ P[1].op \in Queries /\ P[1].at = P[i].at
      BY <1>1, <2>1, <2>2 DEF Queries
    <3>2. QED BY <2>1, <3>1
  <2>3. QED BY <2>1, <2>2
<1>4. 4 \in 1..Len(P) /\ P[4].op = "delete" /\ P[4].at = k /\ P[4].value = "marker"
      /\ 5 \in 1..Len(P) /\ P[5].op = "delete" /\ P[5].at = k /\ P[5].value = "legacy"
  BY <1>1
<1>5. Deletes(P, k, "marker") /\ Deletes(P, k, "legacy")
  BY <1>4, Zenon DEF Deletes
<1>6. QED BY <1>1, <1>2, <1>3, <1>5

LEMMA ApplyKeys ==
  ASSUME NEW P, P = apply_browser_policy["windows"]
  PROVE  Len(P) \in Nat /\ Allowed(P, "configure", "windows") /\ Ordered(P, "configure")
<1> DEFINE c == apply_windows_browser_policy("Chrome")
           e == apply_windows_browser_policy("Edge")
<1>1. P = c \o e
  BY DEF apply_browser_policy, Systems
<1>2. "Chrome" \in Keys /\ "Edge" \in Keys
  BY DEF Keys
<1>3. /\ c \in Seq(KeyStep) /\ Allowed(c, "configure", "windows") /\ Ordered(c, "configure")
      /\ e \in Seq(KeyStep) /\ Allowed(e, "configure", "windows") /\ Ordered(e, "configure")
  BY <1>2, ApplyKey
<1> HIDE DEF c, e
<1>4. QED BY <1>1, <1>3, JoinedPlans

LEMMA RemoveKeys ==
  ASSUME NEW P, P = remove_browser_policy["windows"]
  PROVE  /\ Len(P) \in Nat /\ Allowed(P, "unconfigure", "windows") /\ Ordered(P, "unconfigure")
         /\ \A k \in Keys : Deletes(P, k, "marker") /\ Deletes(P, k, "legacy")
<1> DEFINE c == remove_windows_browser_policy("Chrome")
           e == remove_windows_browser_policy("Edge")
<1>1. P = c \o e
  BY DEF remove_browser_policy, Systems
<1>2. "Chrome" \in Keys /\ "Edge" \in Keys /\ \A k \in Keys : k = "Chrome" \/ k = "Edge"
  BY DEF Keys
<1>3. /\ c \in Seq(KeyStep) /\ Allowed(c, "unconfigure", "windows") /\ Ordered(c, "unconfigure")
      /\ e \in Seq(KeyStep) /\ Allowed(e, "unconfigure", "windows") /\ Ordered(e, "unconfigure")
      /\ Deletes(c, "Chrome", "marker") /\ Deletes(c, "Chrome", "legacy")
      /\ Deletes(e, "Edge", "marker") /\ Deletes(e, "Edge", "legacy")
  BY <1>2, RemoveKey
<1> HIDE DEF c, e
<1>4. /\ Len(P) \in Nat /\ Allowed(P, "unconfigure", "windows") /\ Ordered(P, "unconfigure")
      /\ \A k, v : Deletes(c, k, v) \/ Deletes(e, k, v) => Deletes(P, k, v)
  BY <1>1, <1>3, JoinedPlans
<1>5. QED BY <1>2, <1>3, <1>4

\* Every plan.
LEMMA PlansAllowed ==
  ASSUME NEW p, NEW a \in {"configure", "unconfigure"}, NEW o \in Systems, NEW w \in Owners,
         NEW b, NEW P, P = PlanOf(p, a, o, w, b)
  PROVE  Len(P) \in Nat /\ Allowed(P, a, o) /\ Ordered(P, a)
<1>1. CASE p = "execute" /\ a = "configure"
  <2>1. P = configure_resolver_steps[o][w]
    BY <1>1 DEF PlanOf
  <2>2. CASE o = "other"
    <3>1. P = <<>>
      BY <2>1, <2>2 DEF configure_resolver_steps, Systems
    <3>2. QED BY <3>1, EmptyPlan
  <2>3. QED BY <1>1, <2>1, <2>2, ConfigureLinux, ConfigureMac, ConfigureWindows DEF Systems
<1>2. CASE p = "execute" /\ a = "unconfigure"
  <2>1. P = unconfigure_resolver_steps[o]
    BY <1>2 DEF PlanOf
  <2>2. CASE o = "other"
    <3>1. P = <<>>
      BY <2>1, <2>2 DEF unconfigure_resolver_steps, Systems
    <3>2. QED BY <3>1, EmptyPlan
  <2>3. QED BY <1>2, <2>1, <2>2, UnconfigureLinux, UnconfigureMac, UnconfigureWindows DEF Systems
<1>3. CASE p = "browser" /\ a = "unconfigure"
  <2>1. P = remove_browser_policy[o]
    BY <1>3 DEF PlanOf
  <2>2. CASE o = "other"
    <3>1. P = <<>>
      BY <2>1, <2>2 DEF remove_browser_policy, Systems
    <3>2. QED BY <3>1, EmptyPlan
  <2>3. QED BY <1>3, <2>1, <2>2, RemoveFiles, RemoveKeys DEF Systems
<1>4. CASE p = "browser" /\ a = "configure" /\ b
  <2>1. P = apply_browser_policy[o]
    BY <1>4 DEF PlanOf
  <2>2. CASE o = "other"
    <3>1. P = <<>>
      BY <2>1, <2>2 DEF apply_browser_policy, Systems
    <3>2. QED BY <3>1, EmptyPlan
  <2>3. QED BY <1>4, <2>1, <2>2, ApplyFiles, ApplyKeys DEF Systems
<1>5. CASE P = <<>>
  BY <1>5, EmptyPlan
<1>6. QED BY <1>1, <1>2, <1>3, <1>4, <1>5 DEF PlanOf

(***************************************************************************)
(* The step a command is at.                                               *)
(***************************************************************************)
LEMMA PlanNow ==
  ASSUME TypeOK
  PROVE  /\ Plan = PlanOf(pc, act, os, owner, browser)
         /\ Len(Plan) \in Nat /\ Allowed(Plan, act, os) /\ Ordered(Plan, act)
<1>1. Plan = PlanOf(pc, act, os, owner, browser)
  BY DEF Plan, PlanOf
<1>2. act \in {"configure", "unconfigure"} /\ os \in Systems /\ owner \in Owners
  BY OsesAssumption DEF TypeOK
<1>3. QED BY <1>1, <1>2, PlansAllowed

LEMMA StepNow ==
  ASSUME TypeOK, NEW ops, At(ops)
  PROVE  /\ next \in 1..Len(Plan) /\ Plan[next].op \in ops
         /\ act = "configure" => ConfigureStep(os, Plan[next])
         /\ act = "unconfigure" => UnconfigureStep(Plan[next])
<1>1. next \in 1..Len(Plan) /\ Plan[next].op \in ops
  BY PlanNow DEF At, TypeOK
<1>2. QED BY <1>1, PlanNow DEF Allowed

LEMMA TargetNow ==
  ASSUME TypeOK, NEW ops, At(ops)
  PROVE  /\ ops \subseteq {"write", "write_unmanaged", "remove_ours", "remove_on_sight"}
              => Target \in Files
         /\ ops \subseteq {"reload"} => Target \in Daemons
         /\ ops \subseteq Queries \cup {"add", "delete", "record"} => Target \in Keys
         /\ ops \subseteq {"add"} => Value \in {"doh", "builtin", "marker"}
         /\ ops \subseteq {"delete"} => Value \in {"doh", "builtin", "marker", "legacy"}
<1> DEFINE s == Plan[next]
<1>1. s.op \in ops /\ (ConfigureStep(os, s) \/ UnconfigureStep(s))
  BY StepNow DEF TypeOK
<1>2. Target = s.at /\ Value = s.value
  BY DEF Target, Value
<1> HIDE DEF s
<1>3. ASSUME ops \subseteq {"write", "write_unmanaged", "remove_ours", "remove_on_sight"}
      PROVE  s.at \in Files
  <2>1. s.op \in {"write", "write_unmanaged", "remove_ours", "remove_on_sight"}
    BY <1>1, <1>3
  <2>2. QED BY <1>1, <2>1 DEF ConfigureStep, UnconfigureStep, Files, ManagedPrefs, PolicyFiles
<1>4. ASSUME ops \subseteq {"reload"} PROVE s.at \in Daemons
  <2>1. s.op = "reload"
    BY <1>1, <1>4
  <2>2. QED BY <1>1, <2>1 DEF ConfigureStep, UnconfigureStep
<1>5. ASSUME ops \subseteq Queries \cup {"add", "delete", "record"} PROVE s.at \in Keys
  <2>1. s.op \in {"query", "query_ours", "add", "delete", "record"}
    BY <1>1, <1>5 DEF Queries
  <2>2. QED BY <1>1, <2>1 DEF ConfigureStep, UnconfigureStep
<1>6. ASSUME ops \subseteq {"add"} PROVE s.value \in {"doh", "builtin", "marker"}
  <2>1. s.op = "add"
    BY <1>1, <1>6
  <2>2. QED BY <1>1, <2>1 DEF ConfigureStep, UnconfigureStep
<1>7. ASSUME ops \subseteq {"delete"} PROVE s.value \in {"doh", "builtin", "marker", "legacy"}
  <2>1. s.op = "delete"
    BY <1>1, <1>7
  <2>2. QED BY <1>1, <2>1 DEF ConfigureStep, UnconfigureStep
<1>8. QED BY <1>2, <1>3, <1>4, <1>5, <1>6, <1>7

(***************************************************************************)
(* Types.                                                                  *)
(***************************************************************************)
MachineOK ==
  /\ disk \in [Files -> Content] /\ temps \subseteq TempFiles /\ loaded \in [Daemons -> Content]
  /\ nrpt \subseteq Content /\ policy \in [Keys -> SUBSET Values]
  /\ alias \subseteq Ips \cup {Elsewhere} /\ stale \in BOOLEAN

Artifacts == Files \cup Keys \cup {"nrpt"}

ReportOK ==
  /\ wired \in BOOLEAN /\ activated \in BOOLEAN /\ reboot \in BOOLEAN
  /\ result \in {"none", "ok", "denied", "unsupported", "killed"}
  /\ applied \subseteq Artifacts /\ removed \subseteq Artifacts

CommandOK ==
  /\ os \in Oses /\ owner \in Owners
  /\ pc \in {"idle", "execute", "browser"} /\ next \in Nat \ {0}
  /\ act \in {"configure", "unconfigure"} /\ ip \in Ips /\ browser \in BOOLEAN
  /\ skip \subseteq Keys /\ clean \in BOOLEAN /\ last \in Call \cup {Never}
  /\ runs \in 0..MaxRuns /\ faults \in 0..MaxFaults

LEMMA TypeParts == TypeOK => MachineOK /\ ReportOK /\ CommandOK
BY DEF TypeOK, MachineOK, ReportOK, CommandOK, Artifacts

LEMMA TypeNext == MachineOK' /\ ReportOK' /\ CommandOK' => TypeOK'
BY DEF TypeOK, MachineOK, ReportOK, CommandOK, Artifacts

LEMMA ContentType ==
  ASSUME NEW i \in Ips
  PROVE  /\ Nothing \in Content /\ Ours(i) \in Content /\ Ours(Elsewhere) \in Content
         /\ Theirs \in Content /\ Legacy(i) \in Content
         /\ [by |-> "bare", ip |-> i] \in Content
BY DEF Content, Nothing, Ours, Theirs, Legacy

LEMMA FaultCount ==
  ASSUME TypeOK, Succeeds \/ Fails
  PROVE  clean' \in BOOLEAN /\ faults' \in 0..MaxFaults
<1>1. CASE Succeeds
  BY <1>1 DEF TypeOK, Succeeds
<1>2. CASE Fails
  <2>1. faults \in 0..MaxFaults /\ faults < MaxFaults /\ faults' = faults + 1
    BY <1>2 DEF TypeOK, Fails
  <2>2. faults' \in 0..MaxFaults
    BY <2>1, BoundsAssumption
  <2>3. clean' \in BOOLEAN
    BY <1>2, Zenon DEF Fails
  <2>4. QED BY <2>2, <2>3
<1>3. QED BY <1>1, <1>2

\* What a step of a plan does not touch.
LEMMA ProceedsType ==
  ASSUME TypeOK, Proceeds, Succeeds \/ Fails, skip' \subseteq Keys,
         applied' \subseteq Artifacts, removed' \subseteq Artifacts
  PROVE  ReportOK' /\ CommandOK'
<1>1. next' \in Nat \ {0}
  BY DEF TypeOK, Proceeds
<1>2. clean' \in BOOLEAN /\ faults' \in 0..MaxFaults
  BY FaultCount
<1>3. QED BY <1>1, <1>2 DEF TypeOK, Proceeds, call, ReportOK, CommandOK

\* What a step that writes is about.
LEMMA WritesTarget ==
  ASSUME TypeOK, Writes
  PROVE  Target \in Files
<1>1. PICK ops \in {{"write"}, {"write_unmanaged"}} : At(ops)
  BY DEF Writes
<1>2. ops \subseteq {"write", "write_unmanaged", "remove_ours", "remove_on_sight"}
  BY <1>1
<1>3. QED BY <1>1, <1>2, TargetNow

LEMMA ExecutesType ==
  ASSUME TypeOK, Executes
  PROVE  TypeOK'
<1> USE DEF Artifacts
<1>0. MachineOK /\ skip \subseteq Keys /\ applied \subseteq Artifacts /\ removed \subseteq Artifacts
      /\ ip \in Ips
  BY TypeParts DEF TypeOK
<1>1. CASE WriteFile
  <2>1. Target \in Files
    BY <1>1, WritesTarget DEF WriteFile
  <2>2. Body(Target) \in Content
    BY <1>0, ContentType DEF Body
  <2>3. disk' \in [Files -> Content]
    BY <1>0, <1>1, <2>1, <2>2 DEF WriteFile, MachineOK
  <2>t. temps' \subseteq TempFiles
    BY <1>0, <1>1, <2>1 DEF WriteFile, CutShort, LeavesTemp, TempFiles, MachineOK
  <2>4. MachineOK'
    BY <1>0, <1>1, <2>3, <2>t DEF WriteFile, MachineOK
  <2>5. applied' \subseteq Artifacts /\ removed' \subseteq Artifacts /\ skip' \subseteq Keys
    BY <1>0, <1>1, <2>1 DEF WriteFile
  <2>6. QED BY <1>1, <2>4, <2>5, ProceedsType, TypeNext DEF WriteFile
<1>2. CASE RemoveFile
  <2>1. Target \in Files
    BY <1>2, TargetNow DEF RemoveFile
  <2>2. disk' \in [Files -> Content]
    BY <1>0, <1>2, <2>1, ContentType DEF RemoveFile, MachineOK
  <2>3. MachineOK'
    BY <1>0, <1>2, <2>2 DEF RemoveFile, MachineOK
  <2>4. applied' \subseteq Artifacts /\ removed' \subseteq Artifacts /\ skip' \subseteq Keys
    BY <1>0, <1>2, <2>1 DEF RemoveFile
  <2>5. QED BY <1>2, <2>3, <2>4, ProceedsType, TypeNext DEF RemoveFile
<1>3. CASE LeaveAlone
  <2>1. MachineOK'
    BY <1>0, <1>3 DEF LeaveAlone, machine, MachineOK
  <2>2. QED BY <1>0, <1>3, <2>1, ProceedsType, TypeNext DEF LeaveAlone, Succeeds
<1>4. CASE Exec
  <2>1. loaded' \in [Daemons -> Content]
    <3>1. CASE loaded' = loaded
      BY <1>0, <3>1 DEF MachineOK
    <3>2. CASE At({"reload"}) /\ loaded' = [loaded EXCEPT ![Target] = disk[Target]]
      <4>1. Target \in Daemons
        BY <3>2, TargetNow
      <4>2. disk[Target] \in Content
        BY <1>0, <4>1 DEF MachineOK, Files
      <4>3. QED BY <1>0, <3>2, <4>1, <4>2 DEF MachineOK
    <3>3. QED BY <1>4, <3>1, <3>2 DEF Exec, ExecEffect
  <2>2. alias' \subseteq Ips \cup {Elsewhere}
    <3>1. disk["lo0_plist"].ip \in Ips \cup {Elsewhere}
      BY <1>0 DEF MachineOK, Files, Content
    <3>2. \/ alias' = alias \/ alias' = alias \cup {ip} \/ alias' = alias \ {ip}
          \/ alias' = alias \cup {disk["lo0_plist"].ip}
      BY <1>4 DEF Exec, ExecEffect
    <3>3. QED BY <1>0, <3>1, <3>2 DEF MachineOK
  <2>3. stale' \in BOOLEAN
    BY <1>0, <1>4, Zenon DEF Exec, ExecEffect, MachineOK
  <2>4. MachineOK'
    BY <1>0, <1>4, <2>1, <2>2, <2>3 DEF Exec, MachineOK
  <2>5. QED BY <1>0, <1>4, <2>4, ProceedsType, TypeNext DEF Exec
<1>5. CASE NrptAdd
  <2>1. nrpt' \subseteq Content
    <3>1. nrpt' = nrpt \/ nrpt' = {Ours(ip)}
      BY <1>5 DEF NrptAdd
    <3>2. Ours(ip) \in Content
      BY <1>0, ContentType
    <3>3. QED BY <1>0, <3>1, <3>2 DEF MachineOK
  <2>2. MachineOK'
    BY <1>0, <1>5, <2>1 DEF NrptAdd, MachineOK
  <2>3. applied' \subseteq Artifacts /\ removed' \subseteq Artifacts /\ skip' \subseteq Keys
    BY <1>0, <1>5 DEF NrptAdd
  <2>4. QED BY <1>5, <2>2, <2>3, ProceedsType, TypeNext DEF NrptAdd
<1>6. CASE NrptRemove
  <2>1. nrpt' \subseteq Content
    BY <1>0, <1>6 DEF NrptRemove, MachineOK
  <2>2. MachineOK'
    BY <1>0, <1>6, <2>1 DEF NrptRemove, MachineOK
  <2>3. applied' \subseteq Artifacts /\ removed' \subseteq Artifacts /\ skip' \subseteq Keys
    BY <1>0, <1>6 DEF NrptRemove
  <2>4. QED BY <1>6, <2>2, <2>3, ProceedsType, TypeNext DEF NrptRemove
<1>7. CASE QueryKey
  <2>1. Target \in Keys
    BY <1>7, TargetNow DEF QueryKey, Queries
  <2>2. skip' \subseteq Keys
    <3>1. skip' = skip \/ skip' = skip \cup {Target}
      BY <1>7 DEF QueryKey
    <3>2. QED BY <1>0, <2>1, <3>1
  <2>3. MachineOK'
    BY <1>0, <1>7 DEF QueryKey, machine, MachineOK
  <2>4. applied' \subseteq Artifacts /\ removed' \subseteq Artifacts /\ Succeeds
    BY <1>0, <1>7 DEF QueryKey, Succeeds
  <2>5. QED BY <1>7, <2>2, <2>3, <2>4, ProceedsType, TypeNext DEF QueryKey
<1>8. CASE AddValue
  <2>1. Target \in Keys /\ Value \in {"doh", "builtin", "marker"}
    BY <1>8, TargetNow DEF AddValue
  <2>2. policy' \in [Keys -> SUBSET Values]
    <3>1. policy[Target] \cup {"key", Value} \in SUBSET Values
      BY <1>0, <2>1 DEF MachineOK, Values
    <3>2. QED BY <1>0, <1>8, <2>1, <3>1 DEF AddValue, MachineOK
  <2>3. MachineOK'
    BY <1>0, <1>8, <2>2 DEF AddValue, MachineOK
  <2>4. applied' \subseteq Artifacts /\ removed' \subseteq Artifacts /\ skip' \subseteq Keys
    BY <1>0, <1>8, <2>1 DEF AddValue
  <2>5. QED BY <1>8, <2>3, <2>4, ProceedsType, TypeNext DEF AddValue
<1>9. CASE DeleteValue
  <2>1. Target \in Keys
    BY <1>9, TargetNow DEF DeleteValue
  <2>2. policy' \in [Keys -> SUBSET Values]
    <3>1. policy[Target] \ {Value} \in SUBSET Values
      BY <1>0, <2>1 DEF MachineOK
    <3>2. QED BY <1>0, <1>9, <2>1, <3>1 DEF DeleteValue, MachineOK
  <2>3. MachineOK'
    BY <1>0, <1>9, <2>2 DEF DeleteValue, MachineOK
  <2>4. applied' \subseteq Artifacts /\ removed' \subseteq Artifacts /\ skip' \subseteq Keys
    BY <1>0, <1>9 DEF DeleteValue
  <2>5. QED BY <1>9, <2>3, <2>4, ProceedsType, TypeNext DEF DeleteValue
<1>10. CASE RecordKey
  <2>1. Target \in Keys
    BY <1>10, TargetNow DEF RecordKey
  <2>2. MachineOK'
    BY <1>0, <1>10 DEF RecordKey, machine, MachineOK
  <2>3. applied' \subseteq Artifacts /\ removed' \subseteq Artifacts /\ skip' \subseteq Keys
        /\ Succeeds
    BY <1>0, <1>10, <2>1 DEF RecordKey, Succeeds
  <2>4. QED BY <1>10, <2>2, <2>3, ProceedsType, TypeNext DEF RecordKey
<1>11. QED
  BY <1>1, <1>2, <1>3, <1>4, <1>5, <1>6, <1>7, <1>8, <1>9, <1>10 DEF Executes

LEMMA CommandType ==
  ASSUME TypeOK,
         \/ \E a \in {"configure", "unconfigure"}, i \in Ips, b, elevated \in BOOLEAN :
              Invoke(a, i, b, elevated)
         \/ PlanEnds \/ UnconfigureEnds \/ (\E answers \in BOOLEAN : Verify(answers))
         \/ Killed
  PROVE  TypeOK'
<1>0. MachineOK /\ ReportOK /\ CommandOK
  BY TypeParts
<1>m. MachineOK'
  <2>1. CASE Killed
    <3>1. temps' \subseteq TempFiles
      BY <1>0, <2>1, WritesTarget DEF Killed, LeavesTemp, TempFiles, MachineOK
    <3>2. QED BY <1>0, <2>1, <3>1 DEF Killed, MachineOK
  <2>2. CASE ~Killed
    <3>1. UNCHANGED machine
      BY <2>2 DEF Invoke, PlanEnds, UnconfigureEnds, Verify, Returns
    <3>2. QED BY <1>0, <3>1 DEF MachineOK, machine
  <2>3. QED BY <2>1, <2>2
<1>1. ASSUME NEW a \in {"configure", "unconfigure"}, NEW i \in Ips, NEW b \in BOOLEAN,
             NEW elevated \in BOOLEAN, Invoke(a, i, b, elevated)
      PROVE  TypeOK'
  <2>1. runs' \in 0..MaxRuns
    BY <1>0, <1>1, BoundsAssumption DEF Invoke, CommandOK
  <2>2. CommandOK'
    BY <1>0, <1>1, <2>1 DEF Invoke, CommandOK
  <2>3. ReportOK'
    BY <1>0, <1>1 DEF Invoke, ReportOK
  <2>4. QED BY <1>m, <2>2, <2>3, TypeNext
<1>2. CASE PlanEnds
  <2>1. wired' \in BOOLEAN
    BY <1>2, Zenon DEF PlanEnds
  <2>2. QED BY <1>0, <1>m, <1>2, <2>1, TypeNext DEF PlanEnds, ReportOK, CommandOK, call
<1>3. ASSUME Returns, activated' \in BOOLEAN, reboot' \in BOOLEAN PROVE TypeOK'
  <2>1. last' \in Call
    BY <1>0, <1>3 DEF Returns, CommandOK, Call
  <2>2. CommandOK'
    BY <1>0, <1>3, <2>1 DEF Returns, CommandOK, call
  <2>3. ReportOK'
    BY <1>0, <1>3 DEF Returns, ReportOK
  <2>4. QED BY <1>m, <2>2, <2>3, TypeNext
<1>4. CASE UnconfigureEnds
  BY <1>0, <1>3, <1>4 DEF UnconfigureEnds, ReportOK
<1>5. ASSUME NEW answers \in BOOLEAN, Verify(answers) PROVE TypeOK'
  <2>1. activated' \in BOOLEAN /\ reboot' \in BOOLEAN
    BY <1>5, Zenon DEF Verify
  <2>2. QED BY <1>3, <1>5, <2>1 DEF Verify
<1>6. CASE Killed
  <2>1. faults' \in 0..MaxFaults
    BY <1>0, <1>6, BoundsAssumption DEF Killed, Counted, CommandOK
  <2>2. CommandOK'
    BY <1>0, <1>6, <2>1 DEF Killed, CommandOK, call
  <2>3. ReportOK'
    BY <1>6 DEF Killed, ReportOK
  <2>4. QED BY <1>m, <2>2, <2>3, TypeNext
<1>7. QED BY <1>1, <1>2, <1>4, <1>5, <1>6

\* What the rest of the machine does.
Surroundings ==
  \/ Reboot \/ (\E d \in Daemons : DaemonRestarts(d)) \/ LookupFails
  \/ (\E o \in Owners : OwnerChanges(o)) \/ (\E f \in Files : UserRule(f)) \/ UserNrptRule

LEMMA SurroundingsType ==
  ASSUME TypeOK, Surroundings
  PROVE  TypeOK'
<1>0. MachineOK /\ ReportOK /\ CommandOK /\ (\A d \in Daemons : disk[d] \in Content)
      /\ disk["lo0_plist"].ip \in Ips \cup {Elsewhere} /\ Theirs \in Content
  <2>1. MachineOK /\ ReportOK /\ CommandOK
    BY TypeParts
  <2>2. \A d \in Daemons : disk[d] \in Content
    BY <2>1 DEF MachineOK, Files
  <2>3. disk["lo0_plist"].ip \in Ips \cup {Elsewhere} /\ Theirs \in Content
    BY <2>1, ContentType DEF MachineOK, Files, Content, CommandOK
  <2>4. QED BY <2>1, <2>2, <2>3
<1>1. ReportOK'
  BY <1>0 DEF Surroundings, Reboot, DaemonRestarts, LookupFails, OwnerChanges, UserRule,
              UserNrptRule, report, ReportOK
<1>2. MachineOK'
  <2>1. CASE Reboot
    BY <1>0, <2>1 DEF Reboot, MachineOK
  <2>2. ASSUME NEW d \in Daemons, DaemonRestarts(d) PROVE MachineOK'
    BY <1>0, <2>2 DEF DaemonRestarts, MachineOK
  <2>3. CASE LookupFails
    BY <1>0, <2>3 DEF LookupFails, MachineOK
  <2>4. ASSUME NEW o \in Owners, OwnerChanges(o) PROVE MachineOK'
    BY <1>0, <2>4 DEF OwnerChanges, machine, MachineOK
  <2>5. ASSUME NEW f \in Files, UserRule(f) PROVE MachineOK'
    BY <1>0, <2>5 DEF UserRule, MachineOK
  <2>6. CASE UserNrptRule
    BY <1>0, <2>6 DEF UserNrptRule, MachineOK
  <2>7. QED BY <2>1, <2>2, <2>3, <2>4, <2>5, <2>6 DEF Surroundings
<1>3. CommandOK'
  <2>1. CASE Reboot \/ LookupFails \/ \E d \in Daemons : DaemonRestarts(d)
    BY <1>0, <2>1 DEF Reboot, LookupFails, DaemonRestarts, CommandOK, call
  <2>2. CASE (\E o \in Owners : OwnerChanges(o)) \/ (\E f \in Files : UserRule(f)) \/ UserNrptRule
    <3>1. faults' \in 0..MaxFaults
      <4>1. Counted
        BY <2>2 DEF OwnerChanges, UserRule, UserNrptRule
      <4>2. QED BY <1>0, <4>1, BoundsAssumption DEF Counted, CommandOK
    <3>2. QED BY <1>0, <2>2, <3>1 DEF OwnerChanges, UserRule, UserNrptRule, CommandOK, call
  <2>3. QED BY <2>1, <2>2 DEF Surroundings
<1>4. QED BY <1>1, <1>2, <1>3, TypeNext

LEMMA NextParts ==
  Next => \/ \E a \in {"configure", "unconfigure"}, i \in Ips, b, elevated \in BOOLEAN :
               Invoke(a, i, b, elevated)
          \/ Executes
          \/ PlanEnds \/ UnconfigureEnds \/ (\E answers \in BOOLEAN : Verify(answers))
          \/ Killed
          \/ Surroundings
BY DEF Next, Surroundings

LEMMA TypeStep ==
  ASSUME TypeOK, [Next]_vars
  PROVE  TypeOK'
<1>1. CASE UNCHANGED vars
  BY <1>1 DEF TypeOK, vars, machine, call, report
<1>2. QED BY <1>1, NextParts, ExecutesType, CommandType, SurroundingsType

(***************************************************************************)
(* The effect of a step, as a relation on machines.                        *)
(***************************************************************************)
M == [disk |-> disk, temps |-> temps, loaded |-> loaded, nrpt |-> nrpt, policy |-> policy]

BodyFor(f, i) == IF f \in PolicyFiles \cup ManagedPrefs THEN Ours(Elsewhere) ELSE Ours(i)
OursFor(c, i) == c.by \in {"ours", "legacy"} \/ (c.by = "bare" /\ c.ip = i)
ManagedElsewhere(i, m) ==
  \/ \E f \in ManagedPrefs : m.disk[f].by # "none" /\ ~OursFor(m.disk[f], i)
  \/ [of |-> "chrome_plist", marked |-> FALSE] \in m.temps
OursKey(k, m) == m.policy[k] \cap {"marker", "legacy"} # {}

\* The keys the queries of command a leave alone.
Foreign(a, m) == {k \in Keys : ~OursKey(k, m) /\ (a = "configure" => m.policy[k] # {})}

\* Step s of command a with address i is in effect on machine m; the keys of K are left
\* alone.
Done(s, a, i, K, m) ==
  /\ s.op = "write" => m.disk[s.at] = BodyFor(s.at, i)
  /\ s.op = "write_unmanaged" => ManagedElsewhere(i, m) \/ m.disk[s.at] = BodyFor(s.at, i)
  /\ s.op = "remove_ours" => ~OursFor(m.disk[s.at], i)
  /\ s.op = "remove_on_sight" => m.disk[s.at].by = "none"
  /\ s.op = "reload" /\ a = "unconfigure" => ~Marked(m.disk[s.at]) /\ ~Marked(m.loaded[s.at])
  /\ s.op = "nrpt_add" => m.nrpt # {}
  /\ s.op = "nrpt_remove" => \A r \in m.nrpt : ~Marked(r)
  /\ s.op = "add" => s.at \in K \/ ("key" \in m.policy[s.at] /\ s.value \in m.policy[s.at])
  /\ s.op = "delete" => s.at \in K \/ s.value \notin m.policy[s.at]

\* What the steps of configure-os do to a machine, and those of unconfigure-os.
Grows(m, n, i) ==
  /\ \A f \in Files :
       \/ n.disk[f] = m.disk[f]
       \/ n.disk[f] = BodyFor(f, i) /\ (f \in ManagedPrefs => ~ManagedElsewhere(i, m))
  /\ m.temps \subseteq n.temps
  /\ m.nrpt # {} => n.nrpt # {}
  /\ \A k \in Keys : m.policy[k] \subseteq n.policy[k]

Shrinks(m, n) ==
  /\ \A f \in Files : n.disk[f] = m.disk[f] \/ n.disk[f] = Nothing
  /\ \A d \in Daemons : n.loaded[d] = m.loaded[d] \/ n.loaded[d] = m.disk[d]
  /\ n.nrpt \subseteq m.nrpt
  /\ \A k \in Keys : n.policy[k] \subseteq m.policy[k]

Moves(a, m, n, i) == IF a = "configure" THEN Grows(m, n, i) ELSE Shrinks(m, n)

\* Nothing is written; a daemon may read its drop-in again.
Calm(m, n) ==
  /\ n.disk = m.disk /\ n.temps = m.temps /\ n.nrpt = m.nrpt /\ n.policy = m.policy
  /\ \A d \in Daemons : n.loaded[d] = m.loaded[d] \/ n.loaded[d] = m.disk[d]

LEMMA CalmMoves ==
  ASSUME NEW a, NEW i, NEW m, NEW n, Calm(m, n)
  PROVE  Moves(a, m, n, i) /\ Foreign(a, n) = Foreign(a, m)
BY DEF Calm, Moves, Grows, Shrinks, Foreign, OursKey

LEMMA StillManaged ==
  ASSUME NEW i, NEW m, NEW n, Grows(m, n, i), ManagedElsewhere(i, m)
  PROVE  ManagedElsewhere(i, n)
<1>1. ASSUME NEW f \in ManagedPrefs, m.disk[f].by # "none" /\ ~OursFor(m.disk[f], i)
      PROVE  ManagedElsewhere(i, n)
  <2>1. n.disk[f] = m.disk[f]
    BY <1>1 DEF Grows, Files
  <2>2. QED BY <1>1, <2>1 DEF ManagedElsewhere
<1>2. ASSUME [of |-> "chrome_plist", marked |-> FALSE] \in m.temps
      PROVE  ManagedElsewhere(i, n)
  BY <1>2 DEF Grows, ManagedElsewhere
<1>3. QED BY <1>1, <1>2 DEF ManagedElsewhere

\* A step that is in effect stays so while its command goes on.
LEMMA DoneKept ==
  ASSUME NEW a \in {"configure", "unconfigure"}, NEW o, NEW s, NEW i, NEW K, NEW L,
         NEW m, NEW n,
         IF a = "configure" THEN ConfigureStep(o, s) ELSE UnconfigureStep(s),
         Done(s, a, i, K, m), Moves(a, m, n, i), K \subseteq L
  PROVE  Done(s, a, i, L, n)
<1>1. CASE a = "configure"
  <2>1. ConfigureStep(o, s) /\ Grows(m, n, i)
    BY <1>1 DEF Moves
  <2>2. s.op = "write" => n.disk[s.at] = BodyFor(s.at, i)
    BY <2>1 DEF Done, ConfigureStep, Grows
  <2>3. s.op = "write_unmanaged" => ManagedElsewhere(i, n) \/ n.disk[s.at] = BodyFor(s.at, i)
    <3>1. s.op = "write_unmanaged" => s.at \in Files
      BY <2>1 DEF ConfigureStep, Files, ManagedPrefs
    <3>2. QED BY <2>1, <3>1, StillManaged DEF Done, Grows
  <2>4. s.op = "nrpt_add" => n.nrpt # {}
    BY <2>1 DEF Done, Grows
  <2>5. s.op = "add" => s.at \in L \/ ("key" \in n.policy[s.at] /\ s.value \in n.policy[s.at])
    BY <2>1 DEF Done, ConfigureStep, Grows
  <2>6. s.op \notin {"remove_ours", "remove_on_sight", "nrpt_remove", "delete"}
    BY <2>1 DEF ConfigureStep
  <2>7. QED BY <1>1, <2>2, <2>3, <2>4, <2>5, <2>6 DEF Done
<1>2. CASE a = "unconfigure"
  <2>1. UnconfigureStep(s) /\ Shrinks(m, n) /\ Nothing.by = "none"
    BY <1>2 DEF Moves, Nothing
  <2>2. s.op = "remove_ours" => ~OursFor(n.disk[s.at], i)
    BY <2>1 DEF Done, UnconfigureStep, Shrinks, OursFor
  <2>3. s.op = "remove_on_sight" => n.disk[s.at].by = "none"
    BY <2>1 DEF Done, UnconfigureStep, Shrinks, Files
  <2>4. s.op = "reload" => ~Marked(n.disk[s.at]) /\ ~Marked(n.loaded[s.at])
    BY <1>2, <2>1 DEF Done, UnconfigureStep, Shrinks, Files, Marked
  <2>5. s.op = "nrpt_remove" => \A r \in n.nrpt : ~Marked(r)
    BY <2>1 DEF Done, Shrinks
  <2>6. s.op = "delete" => s.at \in L \/ s.value \notin n.policy[s.at]
    BY <2>1 DEF Done, UnconfigureStep, Shrinks
  <2>7. s.op \notin {"write", "write_unmanaged", "nrpt_add", "add"}
    BY <2>1 DEF UnconfigureStep
  <2>8. QED BY <2>2, <2>3, <2>4, <2>5, <2>6, <2>7 DEF Done
<1>3. QED BY <1>1, <1>2

\* The first n - 1 steps of a plan are in effect.
AllDone(P, n, a, i, K, m) == \A j \in 1..Len(P) : j < n => Done(P[j], a, i, K, m)

LEMMA AllDoneKept ==
  ASSUME NEW a \in {"configure", "unconfigure"}, NEW o, NEW P, NEW k, NEW i, NEW K, NEW L,
         NEW m, NEW n, Allowed(P, a, o), AllDone(P, k, a, i, K, m), Moves(a, m, n, i),
         K \subseteq L
  PROVE  AllDone(P, k, a, i, L, n)
BY DoneKept DEF AllDone, Allowed

(***************************************************************************)
(* The inductive invariant.                                                *)
(***************************************************************************)
\* A command none of whose steps failed has done what its plan says, as far as it is.
Passed ==
  pc # "idle" /\ clean =>
    /\ AllDone(Plan, next, act, ip, skip, M)
    /\ pc = "browser" =>
         LET P == PlanOf("execute", act, os, owner, browser)
         IN  AllDone(P, Len(P) + 1, act, ip, skip, M)

SkipMeans == clean => skip \subseteq Foreign(act, M)

\* The whole plan of an ended command is in effect.
SettledBy(c, o, m) ==
  \A p \in {"execute", "browser"} :
    LET P == PlanOf(p, c.act, o, c.owner, c.browser)
    IN  AllDone(P, Len(P) + 1, c.act, c.ip, Foreign(c.act, m), m)

\* The command that ended last, none of whose steps failed, is run again.
Again ==
  /\ pc # "idle" /\ last # Never /\ last.clean
  /\ last.act = act /\ last.ip = ip /\ last.browser = browser /\ last.owner = owner

Settled == last # Never /\ last.clean /\ (pc = "idle" \/ Again) => SettledBy(last, os, M)

\* What the queries found.
Queried ==
  \A j \in 1..Len(Plan) :
    j < next /\ Plan[j].op \in Queries =>
      /\ "org" \in policy[Plan[j].at] => Plan[j].at \in skip
      /\ Again /\ Plan[j].at \in Foreign(act, M) => Plan[j].at \in skip

\* Where things can be at all.
Places ==
  /\ \A f \in Files : f \notin FilesOf(os) => disk[f] = Nothing
  /\ \A d \in Daemons : os # "linux" => loaded[d] = Nothing
  /\ os # "windows" => nrpt = {} /\ \A k \in Keys : policy[k] = {}
  /\ \A f \in PolicyFiles : disk[f].by # "user"
  /\ ~Marked(disk["user_chrome_plist"])
  /\ \A k \in Keys : "org" \in policy[k] => ~OursKey(k, M)

\* What the report rests on.
Wiring ==
  /\ pc # "idle" => ~activated
  /\ pc # "idle" /\ act = "configure" => \A f \in Files : f \in applied => disk[f] = Body(f)
  /\ os = "linux" /\ act = "configure" =>
       /\ pc = "execute" => applied \subseteq {owner} \cap Daemons
       /\ pc = "browser" /\ wired => owner \in applied /\ owner \in Daemons

\* The name server, and what brings it back after a reboot.
Live(i) ==
  /\ Routed(i)
  /\ os = "linux" => disk[owner].by # "none" /\ disk[owner].ip = i
  /\ os = "macos" => disk["lo0_plist"].by # "none" /\ disk["lo0_plist"].ip = i

Lasting ==
  /\ last # Never /\ pc = "idle" /\ result = "ok" /\ activated
  /\ os = "macos" => "lo0_plist" \in applied
  => Live(last.ip)

Inv == Passed /\ SkipMeans /\ Settled /\ Queried /\ Places /\ Wiring /\ Lasting

(***************************************************************************)
(* The steps of a plan: what they do, and that they have done it.          *)
(***************************************************************************)
LEMMA Views ==
  ASSUME NEW c, NEW k, NEW f
  PROVE  /\ content_is_ours(c) <=> OursFor(c, ip)
         /\ existing_chrome_managed_policy <=> ManagedElsewhere(ip, M)
         /\ policy_is_ours(k) <=> OursKey(k, M)
         /\ Body(f) = BodyFor(f, ip)
BY DEF content_is_ours, OursFor, existing_chrome_managed_policy, ManagedElsewhere, M,
       policy_is_ours, OursKey, Body, BodyFor

LEMMA Running ==
  ASSUME TypeOK, NEW ops, At(ops)
  PROVE  pc # "idle"
<1>1. SUFFICES ASSUME pc = "idle" PROVE FALSE
  OBVIOUS
<1>2. Plan = <<>>
  BY <1>1 DEF Plan
<1>3. QED BY <1>2 DEF At, TypeOK

\* Which command a kind of step belongs to.
LEMMA WhoseStep ==
  ASSUME TypeOK, NEW ops, At(ops)
  PROVE  /\ ops \subseteq {"write", "write_unmanaged", "nrpt_add", "query", "add"}
              => act = "configure"
         /\ ops \subseteq {"remove_ours", "remove_on_sight", "nrpt_remove", "query_ours", "delete"}
              => act = "unconfigure"
<1> DEFINE s == Plan[next]
<1>1. /\ s.op \in ops /\ act \in {"configure", "unconfigure"}
      /\ act = "configure" => ConfigureStep(os, s)
      /\ act = "unconfigure" => UnconfigureStep(s)
  BY StepNow DEF TypeOK
<1> HIDE DEF s
<1>2. ASSUME ops \subseteq {"write", "write_unmanaged", "nrpt_add", "query", "add"}
      PROVE  act = "configure"
  <2>1. s.op \in {"write", "write_unmanaged", "nrpt_add", "query", "add"}
    BY <1>1, <1>2
  <2>2. QED BY <1>1, <2>1 DEF UnconfigureStep
<1>3. ASSUME ops \subseteq {"remove_ours", "remove_on_sight", "nrpt_remove", "query_ours", "delete"}
      PROVE  act = "unconfigure"
  <2>1. s.op \in {"remove_ours", "remove_on_sight", "nrpt_remove", "query_ours", "delete"}
    BY <1>1, <1>3
  <2>2. QED BY <1>1, <2>1 DEF ConfigureStep
<1>4. QED BY <1>2, <1>3

LEMMA WriteIs ==
  ASSUME TypeOK, WriteFile
  PROVE  /\ act = "configure" /\ Target \in Files /\ Target = Plan[next].at
         /\ Target \in ManagedPrefs => ~ManagedElsewhere(ip, M)
         /\ disk' = [disk EXCEPT ![Target] = BodyFor(Target, ip)] \/ disk' = disk
         /\ Plan[next].op \in {"write", "write_unmanaged"}
<1>1. PICK ops \in {{"write"}, {"write_unmanaged"}} : At(ops)
  BY DEF WriteFile, Writes
<1>2. act = "configure" /\ Target \in Files
  <2>1. /\ ops \subseteq {"write", "write_unmanaged", "nrpt_add", "query", "add"}
        /\ ops \subseteq {"write", "write_unmanaged", "remove_ours", "remove_on_sight"}
    BY <1>1
  <2>2. QED BY <1>1, <2>1, WhoseStep, TargetNow
<1>3. Plan[next].op \in {"write", "write_unmanaged"} /\ ConfigureStep(os, Plan[next])
  BY <1>1, <1>2, StepNow
<1>4. Plan[next].op = "write_unmanaged" => ~ManagedElsewhere(ip, M)
  BY Views DEF WriteFile, Writes, At
<1>5. Target \in ManagedPrefs => Plan[next].op = "write_unmanaged"
  BY <1>3 DEF ConfigureStep, Target
<1>6. QED BY <1>2, <1>3, <1>4, <1>5, Views DEF WriteFile, Target

LEMMA RemoveIs ==
  ASSUME TypeOK, RemoveFile
  PROVE  /\ act = "unconfigure" /\ Target \in Files /\ Target = Plan[next].at
         /\ disk' = [disk EXCEPT ![Target] = Nothing] \/ disk' = disk
         /\ Plan[next].op \in {"remove_ours", "remove_on_sight"}
         /\ Plan[next].op = "remove_ours" => OursFor(disk[Target], ip)
         /\ Plan[next].op = "remove_on_sight" => Target \in PolicyFiles
         /\ disk[Target].by # "none"
<1>1. act = "unconfigure" /\ Target \in Files
  BY WhoseStep, TargetNow DEF RemoveFile
<1>2. Plan[next].op \in {"remove_ours", "remove_on_sight"} /\ UnconfigureStep(Plan[next])
  BY <1>1, StepNow DEF RemoveFile
<1>3. Plan[next].op = "remove_ours" => OursFor(disk[Target], ip)
  BY Views DEF RemoveFile, At
<1>4. QED BY <1>1, <1>2, <1>3 DEF RemoveFile, Target, UnconfigureStep

\* Each step changes the machine the way its command does, and keeps what it leaves alone.
LEMMA StepMoves ==
  ASSUME TypeOK, Executes
  PROVE  /\ Moves(act, M, M', ip)
         /\ skip \subseteq skip' /\ \A k \in skip : policy'[k] = policy[k]
<1>0. act \in {"configure", "unconfigure"} /\ disk \in [Files -> Content]
      /\ policy \in [Keys -> SUBSET Values] /\ loaded \in [Daemons -> Content]
  BY DEF TypeOK
<1>s. UNCHANGED <<disk, temps, nrpt, policy, loaded>> => Moves(act, M, M', ip)
  BY CalmMoves DEF Calm, M
<1>1. CASE WriteFile
  <2>1. Grows(M, M', ip)
    BY <1>0, <1>1, WriteIs DEF WriteFile, CutShort, LeavesTemp, Grows, M
  <2>2. QED BY <1>1, <2>1, WriteIs DEF WriteFile, Moves
<1>2. CASE RemoveFile
  <2>1. Shrinks(M, M')
    BY <1>0, <1>2, RemoveIs DEF RemoveFile, Shrinks, M
  <2>2. QED BY <1>2, <2>1, RemoveIs DEF RemoveFile, Moves
<1>3. CASE LeaveAlone \/ RecordKey
  BY <1>s, <1>3 DEF LeaveAlone, RecordKey, machine
<1>4. CASE Exec
  <2>1. \A d \in Daemons : loaded'[d] = loaded[d] \/ loaded'[d] = disk[d]
    <3>1. CASE loaded' = loaded
      BY <3>1
    <3>2. CASE loaded' = [loaded EXCEPT ![Target] = disk[Target]]
      BY <1>0, <3>2
    <3>3. QED BY <1>4, <3>1, <3>2 DEF Exec, ExecEffect
  <2>2. Calm(M, M')
    BY <1>4, <2>1 DEF Exec, Calm, M
  <2>3. QED BY <1>4, <2>2, CalmMoves DEF Exec
<1>5. CASE NrptAdd
  <2>1. act = "configure"
    BY <1>5, WhoseStep DEF NrptAdd
  <2>2. Grows(M, M', ip)
    BY <1>5 DEF NrptAdd, Grows, M
  <2>3. QED BY <1>5, <2>1, <2>2 DEF NrptAdd, Moves
<1>6. CASE NrptRemove
  <2>1. act = "unconfigure"
    BY <1>6, WhoseStep DEF NrptRemove
  <2>2. Shrinks(M, M')
    BY <1>6 DEF NrptRemove, Shrinks, M
  <2>3. QED BY <1>6, <2>1, <2>2 DEF NrptRemove, Moves
<1>7. CASE QueryKey
  BY <1>s, <1>7 DEF QueryKey, machine
<1>8. CASE AddValue
  <2>1. act = "configure" /\ Target \in Keys
    BY <1>8, WhoseStep, TargetNow DEF AddValue
  <2>2. \A k \in Keys : policy[k] \subseteq policy'[k]
    BY <1>0, <1>8, <2>1 DEF AddValue
  <2>3. Grows(M, M', ip)
    BY <1>8, <2>2 DEF AddValue, Grows, M
  <2>4. \A k \in skip : policy'[k] = policy[k]
    BY <1>0, <1>8, <2>1 DEF AddValue, TypeOK
  <2>5. QED BY <1>8, <2>1, <2>3, <2>4 DEF AddValue, Moves
<1>9. CASE DeleteValue
  <2>1. act = "unconfigure" /\ Target \in Keys
    BY <1>9, WhoseStep, TargetNow DEF DeleteValue
  <2>2. \A k \in Keys : policy'[k] \subseteq policy[k]
    BY <1>0, <1>9, <2>1 DEF DeleteValue
  <2>3. Shrinks(M, M')
    BY <1>9, <2>2 DEF DeleteValue, Shrinks, M
  <2>4. \A k \in skip : policy'[k] = policy[k]
    BY <1>0, <1>9, <2>1 DEF DeleteValue, TypeOK
  <2>5. QED BY <1>9, <2>1, <2>3, <2>4 DEF DeleteValue, Moves
<1>10. QED BY <1>1, <1>2, <1>3, <1>4, <1>5, <1>6, <1>7, <1>8, <1>9 DEF Executes

\* A step that did not fail is in effect afterwards.
LEMMA StepDone ==
  ASSUME TypeOK, Passed, Executes, clean'
  PROVE  clean /\ Done(Plan[next], act, ip, skip', M')
<1>0. act \in {"configure", "unconfigure"} /\ disk \in [Files -> Content]
      /\ policy \in [Keys -> SUBSET Values] /\ loaded \in [Daemons -> Content]
  BY DEF TypeOK
<1>c. clean /\ Succeeds
  BY DEF Executes, WriteFile, RemoveFile, LeaveAlone, Exec, NrptAdd, NrptRemove, QueryKey,
         AddValue, DeleteValue, RecordKey, Succeeds, Fails
<1>f. ~Fails
  BY DEF Fails
<1> DEFINE s == Plan[next]
<1>t. Target = s.at /\ Value = s.value
  BY DEF Target, Value
<1>1. CASE WriteFile
  <2>1. s.op \in {"write", "write_unmanaged"} /\ s.at \in Files
    BY <1>1, WriteIs
  <2>2. disk' = [disk EXCEPT ![s.at] = BodyFor(s.at, ip)]
    BY <1>1, <1>f, Views DEF WriteFile, Target
  <2>3. disk'[s.at] = BodyFor(s.at, ip)
    BY <1>0, <2>1, <2>2
  <2>4. QED BY <1>c, <2>1, <2>3 DEF Done, M
<1>2. CASE RemoveFile
  <2>1. s.op \in {"remove_ours", "remove_on_sight"} /\ s.at \in Files
    BY <1>2, RemoveIs
  <2>2. disk' = [disk EXCEPT ![s.at] = Nothing]
    BY <1>2, <1>f DEF RemoveFile, Target
  <2>3. disk'[s.at] = Nothing /\ Nothing.by = "none"
    BY <1>0, <2>1, <2>2 DEF Nothing
  <2>4. QED BY <1>c, <2>1, <2>3 DEF Done, M, OursFor
<1>3. CASE LeaveAlone
  <2>1. \/ s.op = "remove_ours" /\ ~OursFor(disk[s.at], ip)
        \/ s.op = "remove_on_sight" /\ disk[s.at].by = "none"
        \/ s.op = "write_unmanaged" /\ ManagedElsewhere(ip, M)
        \/ s.op \in {"add", "delete", "record"} /\ s.at \in skip
    BY <1>3, Views DEF LeaveAlone, At, Target
  <2>2. UNCHANGED <<disk, temps, loaded, nrpt, policy, skip>>
    BY <1>3 DEF LeaveAlone, machine
  <2>3. M' = M /\ skip' = skip
    BY <2>2 DEF M
  <2>4. Done(s, act, ip, skip, M)
    BY <2>1 DEF Done, M
  <2>5. QED BY <1>c, <2>3, <2>4
<1>4. CASE Exec
  <2>1. s.op \in {"reload", "flush", "alias", "-alias", "bootout", "bootstrap", "enable"}
    BY <1>4 DEF Exec, At
  <2>2. CASE s.op = "reload" /\ act = "unconfigure"
    <3>1. next \in 1..Len(Plan) /\ Ordered(Plan, act) /\ pc # "idle" /\ At({"reload"})
          /\ UnconfigureStep(s)
      BY <1>4, <2>2, PlanNow, StepNow, Running DEF Exec, At
    <3>2. PICK j \in 1..next - 1 : Plan[j].op = "remove_ours" /\ Plan[j].at = s.at
      BY <2>2, <3>1 DEF Ordered
    <3>3. j \in 1..Len(Plan) /\ j < next
      BY <3>1, PlanNow
    <3>4. Done(Plan[j], act, ip, skip, M)
      BY <1>c, <3>1, <3>3 DEF Passed, AllDone
    <3>5. ~OursFor(disk[s.at], ip)
      BY <3>2, <3>4 DEF Done, M
    <3>6. ~Marked(disk[s.at])
      BY <3>5 DEF OursFor, Marked
    <3>7. loaded' = [loaded EXCEPT ![s.at] = disk[s.at]] /\ disk' = disk
      BY <1>4, <1>f, <3>1 DEF Exec, ExecEffect, Target
    <3>8. s.at \in Daemons
      BY <2>2, <3>1 DEF UnconfigureStep
    <3>9. loaded'[s.at] = disk[s.at]
      BY <1>0, <3>7, <3>8
    <3>10. QED BY <1>c, <2>2, <3>6, <3>7, <3>9 DEF Done, M
  <2>3. CASE ~(s.op = "reload" /\ act = "unconfigure")
    BY <1>c, <2>1, <2>3 DEF Done
  <2>4. QED BY <2>2, <2>3
<1>5. CASE NrptAdd
  <2>1. s.op = "nrpt_add" /\ nrpt' # {}
    BY <1>5, <1>f DEF NrptAdd, At
  <2>2. QED BY <1>c, <2>1 DEF Done, M
<1>6. CASE NrptRemove
  <2>1. s.op = "nrpt_remove" /\ \A r \in nrpt' : ~Marked(r)
    BY <1>6, <1>f DEF NrptRemove, At, Marked
  <2>2. QED BY <1>c, <2>1 DEF Done, M
<1>7. CASE QueryKey \/ RecordKey
  <2>1. s.op \in {"query", "query_ours", "record"}
    BY <1>7 DEF QueryKey, RecordKey, At
  <2>2. QED BY <1>c, <2>1 DEF Done
<1>8. CASE AddValue
  <2>1. s.op = "add" /\ s.at \in Keys
    BY <1>8, <1>t, TargetNow DEF AddValue, At
  <2>2. policy' = [policy EXCEPT ![s.at] = @ \cup {"key", s.value}]
    BY <1>8, <1>f, <1>t DEF AddValue
  <2>3. "key" \in policy'[s.at] /\ s.value \in policy'[s.at]
    BY <1>0, <2>1, <2>2
  <2>4. QED BY <1>c, <2>1, <2>3 DEF Done, M
<1>9. CASE DeleteValue
  <2>1. s.op = "delete" /\ s.at \in Keys
    BY <1>9, <1>t, TargetNow DEF DeleteValue, At
  <2>2. policy' = [policy EXCEPT ![s.at] = @ \ {s.value}]
    BY <1>9, <1>f, <1>t DEF DeleteValue
  <2>3. s.value \notin policy'[s.at]
    BY <1>0, <2>1, <2>2
  <2>4. QED BY <1>c, <2>1, <2>3 DEF Done, M
<1>10. QED BY <1>1, <1>2, <1>3, <1>4, <1>5, <1>6, <1>7, <1>8, <1>9 DEF Executes

\* A command that steps stays in its phase.
LEMMA StepFrame ==
  ASSUME TypeOK, Executes
  PROVE  /\ next' = next + 1 /\ next \in 1..Len(Plan) /\ pc # "idle"
         /\ UNCHANGED <<os, owner, pc, act, ip, browser, wired, activated, reboot, result, last>>
         /\ Plan' = Plan
<1>1. next' = next + 1
      /\ UNCHANGED <<os, owner, pc, act, ip, browser, wired, activated, reboot, result, last>>
  BY DEF Executes, WriteFile, RemoveFile, LeaveAlone, Exec, NrptAdd, NrptRemove, QueryKey,
         AddValue, DeleteValue, RecordKey, Proceeds, call
<1>2. \E ops : At(ops)
  BY DEF Executes, WriteFile, Writes, RemoveFile, LeaveAlone, Exec, NrptAdd, NrptRemove, QueryKey,
         AddValue, DeleteValue, RecordKey
<1>3. QED BY <1>1, <1>2, StepNow, Running DEF Plan

LEMMA PassedStep ==
  ASSUME TypeOK, Passed, Executes
  PROVE  Passed'
<1> SUFFICES ASSUME clean' PROVE Passed'
  BY DEF Passed
<1>1. clean /\ Done(Plan[next], act, ip, skip', M')
  BY StepDone
<1>2. Moves(act, M, M', ip) /\ skip \subseteq skip'
  BY StepMoves
<1>3. act \in {"configure", "unconfigure"} /\ os \in Systems /\ owner \in Owners
  BY OsesAssumption DEF TypeOK
<1>4. AllDone(Plan, next, act, ip, skip', M')
  BY <1>1, <1>2, <1>3, AllDoneKept, PlanNow, StepFrame DEF Passed
<1>5. AllDone(Plan, next + 1, act, ip, skip', M')
  <2> SUFFICES ASSUME NEW j \in 1..Len(Plan), j < next + 1
               PROVE  Done(Plan[j], act, ip, skip', M')
    BY DEF AllDone
  <2>1. j < next \/ j = next
    BY StepFrame
  <2>2. QED BY <1>1, <1>4, <2>1 DEF AllDone
<1>6. ASSUME pc = "browser", NEW P, P = PlanOf("execute", act, os, owner, browser)
      PROVE  AllDone(P, Len(P) + 1, act, ip, skip', M')
  <2>1. AllDone(P, Len(P) + 1, act, ip, skip, M)
    BY <1>1, <1>6, StepFrame DEF Passed
  <2>2. Allowed(P, act, os)
    BY <1>3, <1>6, PlansAllowed
  <2>3. QED BY <1>2, <1>3, <2>1, <2>2, AllDoneKept
<1>7. QED BY <1>5, <1>6, StepFrame DEF Passed

LEMMA SkipMeansStep ==
  ASSUME TypeOK, SkipMeans, Executes
  PROVE  SkipMeans'
<1> SUFFICES ASSUME clean' PROVE skip' \subseteq Foreign(act, M')
  BY StepFrame DEF SkipMeans
<1>1. clean /\ ~Fails
  BY DEF Executes, WriteFile, RemoveFile, LeaveAlone, Exec, NrptAdd, NrptRemove, QueryKey,
         AddValue, DeleteValue, RecordKey, Succeeds, Fails
<1>2. \A k \in skip : k \in Foreign(act, M')
  <2> SUFFICES ASSUME NEW k \in skip PROVE k \in Foreign(act, M')
    OBVIOUS
  <2>1. k \in Foreign(act, M) /\ policy'[k] = policy[k]
    BY <1>1, StepMoves DEF SkipMeans
  <2>2. QED BY <2>1 DEF Foreign, OursKey, M
<1>3. CASE skip' = skip
  BY <1>2, <1>3
<1>4. CASE QueryKey /\ skip' = skip \cup {Target}
  <2>1. CASE skip' # skip
    <3>1. Target \in Keys
      BY <1>4, TargetNow DEF QueryKey, Queries
    <3>2. /\ ~OursKey(Target, M) /\ UNCHANGED policy
          /\ At({"query"}) => policy[Target] # {}
      BY <1>4, <2>1, Views DEF QueryKey, machine
    <3>3. act = "configure" => At({"query"})
      <4>1. At({"query"}) \/ At({"query_ours"})
        BY <1>4 DEF QueryKey, At
      <4>2. QED BY <4>1, WhoseStep
    <3>4. Target \in Foreign(act, M')
      BY <3>1, <3>2, <3>3 DEF Foreign, OursKey, M
    <3>5. QED BY <1>2, <1>4, <3>4
  <2>2. QED BY <1>3, <2>1
<1>5. skip' = skip \/ (QueryKey /\ skip' = skip \cup {Target})
  BY <1>1 DEF Executes, WriteFile, RemoveFile, LeaveAlone, Exec, NrptAdd, NrptRemove, QueryKey,
              AddValue, DeleteValue, RecordKey
<1>6. QED BY <1>3, <1>4, <1>5

\* A key that is written to or cleared was asked about before.
LEMMA AskedBefore ==
  ASSUME TypeOK, AddValue \/ DeleteValue
  PROVE  /\ Target \in Keys /\ Target \notin skip
         /\ \E j \in 1..Len(Plan) : j < next /\ Plan[j].op \in Queries /\ Plan[j].at = Target
<1>1. Target \in Keys /\ Target \notin skip
  BY TargetNow DEF AddValue, DeleteValue
<1>2. At({"add"}) \/ At({"delete"})
  BY DEF AddValue, DeleteValue
<1>3. next \in 1..Len(Plan) /\ Plan[next].op \in {"add", "delete"}
  BY <1>2, StepNow DEF At
<1>4. PICK j \in 1..next - 1 : Plan[j].op \in Queries /\ Plan[j].at = Plan[next].at
  BY <1>3, PlanNow DEF Ordered
<1>5. j \in 1..Len(Plan) /\ j < next
  BY <1>3, PlanNow
<1>6. QED BY <1>1, <1>4, <1>5 DEF Target

LEMMA SettledNow ==
  ASSUME TypeOK, Settled, Again, next \in 1..Len(Plan)
  PROVE  Done(Plan[next], act, ip, Foreign(act, M), M)
<1> DEFINE P == PlanOf(pc, act, os, owner, browser)
<1>1. pc \in {"execute", "browser"} /\ SettledBy(last, os, M) /\ Plan = P
  BY PlanNow DEF TypeOK, Again, Settled
<1>2. AllDone(P, Len(P) + 1, act, ip, Foreign(act, M), M)
  BY <1>1 DEF SettledBy, Again
<1> HIDE DEF P
<1>3. next < Len(P) + 1 /\ next \in 1..Len(P)
  BY <1>1, PlanNow
<1>4. QED BY <1>1, <1>2, <1>3 DEF AllDone

\* A command that is run again writes nothing.
LEMMA RerunStep ==
  ASSUME TypeOK, Settled, Queried, Executes, Again
  PROVE  UNCHANGED <<disk, temps, nrpt, policy>>
<1>0. act \in {"configure", "unconfigure"} /\ disk \in [Files -> Content]
      /\ policy \in [Keys -> SUBSET Values]
  BY DEF TypeOK
<1> DEFINE s == Plan[next]
<1>1. Done(s, act, ip, Foreign(act, M), M)
  BY SettledNow, StepFrame
<1>2. CASE WriteFile
  <2>1. disk[s.at] = BodyFor(s.at, ip)
    <3>1. CASE s.op = "write"
      BY <1>1, <3>1 DEF Done, M
    <3>2. CASE s.op = "write_unmanaged"
      <4>1. s.at \in ManagedPrefs
        <5>1. ConfigureStep(os, s)
          BY <1>2, WriteIs, PlanNow, StepFrame DEF Allowed
        <5>2. QED BY <3>2, <5>1 DEF ConfigureStep, ManagedPrefs
      <4>2. ~ManagedElsewhere(ip, M)
        BY <1>2, <4>1, WriteIs
      <4>3. QED BY <1>1, <3>2, <4>2 DEF Done, M
    <3>3. QED BY <1>2, <3>1, <3>2, WriteIs
  <2>2. disk' = disk
    <3>1. s.at \in Files /\ (disk' = [disk EXCEPT ![s.at] = BodyFor(s.at, ip)] \/ disk' = disk)
      BY <1>2, WriteIs
    <3>2. QED BY <1>0, <2>1, <3>1
  <2>3. temps' = temps
    BY <1>2, <2>1, Views DEF WriteFile, Target
  <2>4. QED BY <1>2, <2>2, <2>3 DEF WriteFile
<1>3. CASE RemoveFile
  <2>1. s.op = "remove_ours" => OursFor(disk[s.at], ip)
    BY <1>3, RemoveIs
  <2>2. s.op \in {"remove_ours", "remove_on_sight"} /\ disk[s.at].by # "none"
    BY <1>3, RemoveIs
  <2>3. FALSE
    BY <1>1, <2>1, <2>2 DEF Done, M
  <2>4. QED BY <2>3
<1>4. CASE NrptAdd
  <2>1. nrpt # {}
    BY <1>1, <1>4 DEF NrptAdd, At, Done, M
  <2>2. QED BY <1>4, <2>1 DEF NrptAdd
<1>5. CASE NrptRemove
  <2>1. \A r \in nrpt : ~Marked(r)
    BY <1>1, <1>5 DEF NrptRemove, At, Done, M
  <2>2. {r \in nrpt : r.by \notin {"ours", "legacy"}} = nrpt
    BY <2>1 DEF Marked
  <2>3. QED BY <1>5, <2>2 DEF NrptRemove
<1>6. CASE AddValue \/ DeleteValue
  <2>1. s.at \in Keys /\ s.at \notin skip /\ s.at \notin Foreign(act, M)
    <3>1. PICK j \in 1..Len(Plan) : j < next /\ Plan[j].op \in Queries /\ Plan[j].at = Target
      BY <1>6, AskedBefore
    <3>2. Target \in Keys /\ Target \notin skip
      BY <1>6, AskedBefore
    <3>3. Target \notin Foreign(act, M)
      BY <3>1, <3>2 DEF Queried
    <3>4. QED BY <3>2, <3>3 DEF Target
  <2>2. CASE AddValue
    <3>1. "key" \in policy[s.at] /\ s.value \in policy[s.at]
      BY <1>1, <2>1, <2>2 DEF AddValue, At, Done, M
    <3>2. policy' = [policy EXCEPT ![s.at] = @ \cup {"key", s.value}] \/ policy' = policy
      BY <2>2 DEF AddValue, Target, Value
    <3>3. policy[s.at] \cup {"key", s.value} = policy[s.at]
      BY <3>1
    <3>4. policy' = policy
      BY <1>0, <2>1, <3>2, <3>3
    <3>5. QED BY <2>2, <3>4 DEF AddValue
  <2>3. CASE DeleteValue
    <3>1. s.value \notin policy[s.at]
      BY <1>1, <2>1, <2>3 DEF DeleteValue, At, Done, M
    <3>2. policy' = [policy EXCEPT ![s.at] = @ \ {s.value}] \/ policy' = policy
      BY <2>3 DEF DeleteValue, Target, Value
    <3>3. policy[s.at] \ {s.value} = policy[s.at]
      BY <3>1
    <3>4. policy' = policy
      BY <1>0, <2>1, <3>2, <3>3
    <3>5. QED BY <2>3, <3>4 DEF DeleteValue
  <2>4. QED BY <1>6, <2>2, <2>3
<1>7. CASE LeaveAlone \/ Exec \/ QueryKey \/ RecordKey
  BY <1>7 DEF LeaveAlone, Exec, QueryKey, RecordKey, machine
<1>8. QED BY <1>2, <1>3, <1>4, <1>5, <1>6, <1>7 DEF Executes

LEMMA StepLoads ==
  ASSUME TypeOK, Executes
  PROVE  \A d \in Daemons : loaded'[d] = loaded[d] \/ loaded'[d] = disk[d]
<1>1. loaded' = loaded \/ loaded' = [loaded EXCEPT ![Target] = disk[Target]]
  BY DEF Executes, WriteFile, RemoveFile, LeaveAlone, Exec, ExecEffect, NrptAdd, NrptRemove,
         QueryKey, AddValue, DeleteValue, RecordKey, machine
<1>2. loaded \in [Daemons -> Content]
  BY DEF TypeOK
<1>3. QED BY <1>1, <1>2

LEMMA SettledKept ==
  ASSUME NEW c \in Call, NEW o \in Systems, NEW m, NEW n, SettledBy(c, o, m), Calm(m, n)
  PROVE  SettledBy(c, o, n)
<1> SUFFICES ASSUME NEW p \in {"execute", "browser"}, NEW P,
                    P = PlanOf(p, c.act, o, c.owner, c.browser)
             PROVE  AllDone(P, Len(P) + 1, c.act, c.ip, Foreign(c.act, n), n)
  BY DEF SettledBy
<1>1. c.act \in {"configure", "unconfigure"} /\ c.owner \in Owners
  BY DEF Call
<1>2. Allowed(P, c.act, o)
  BY <1>1, PlansAllowed
<1>3. AllDone(P, Len(P) + 1, c.act, c.ip, Foreign(c.act, m), m)
  BY DEF SettledBy
<1>4. Moves(c.act, m, n, c.ip) /\ Foreign(c.act, n) = Foreign(c.act, m)
  BY CalmMoves
<1>5. QED BY <1>1, <1>2, <1>3, <1>4, AllDoneKept

LEMMA SettledStep ==
  ASSUME TypeOK, Settled, Queried, Executes
  PROVE  Settled'
<1> SUFFICES ASSUME Again PROVE SettledBy(last, os, M')
  BY StepFrame DEF Settled, Again
<1>1. SettledBy(last, os, M) /\ last \in Call /\ os \in Systems
  BY OsesAssumption DEF Settled, Again, TypeOK
<1>2. Calm(M, M')
  BY RerunStep, StepLoads DEF Calm, M
<1>3. QED BY <1>1, <1>2, SettledKept

\* An organisation's key is never written to or cleared.
LEMMA OrgKept ==
  ASSUME TypeOK, Queried, Executes
  PROVE  /\ \A k \in Keys : "org" \in policy[k] => policy'[k] = policy[k]
         /\ \A k \in Keys : "org" \in policy'[k] => "org" \in policy[k]
<1>0. policy \in [Keys -> SUBSET Values]
  BY DEF TypeOK
<1>1. CASE AddValue \/ DeleteValue
  <2>1. Target \in Keys /\ "org" \notin policy[Target]
    <3>1. PICK j \in 1..Len(Plan) : j < next /\ Plan[j].op \in Queries /\ Plan[j].at = Target
      BY <1>1, AskedBefore
    <3>2. Target \in Keys /\ Target \notin skip
      BY <1>1, AskedBefore
    <3>3. QED BY <3>1, <3>2 DEF Queried
  <2>2. /\ AddValue => Value \in {"doh", "builtin", "marker"}
        /\ \/ policy' = policy
           \/ AddValue /\ policy' = [policy EXCEPT ![Target] = @ \cup {"key", Value}]
           \/ policy' = [policy EXCEPT ![Target] = @ \ {Value}]
    BY <1>1, TargetNow DEF AddValue, DeleteValue
  <2>3. "org" \notin policy'[Target]
    BY <1>0, <2>1, <2>2
  <2>4. \A k \in Keys \ {Target} : policy'[k] = policy[k]
    BY <1>0, <2>2
  <2>5. QED BY <2>1, <2>3, <2>4
<1>2. CASE UNCHANGED policy
  BY <1>2
<1>3. QED
  BY <1>1, <1>2 DEF Executes, WriteFile, RemoveFile, LeaveAlone, Exec, NrptAdd, NrptRemove,
                    QueryKey, RecordKey, machine

LEMMA QueriedStep ==
  ASSUME TypeOK, Settled, Queried, Places, Executes
  PROVE  Queried'
<1> SUFFICES ASSUME NEW j \in 1..Len(Plan), j < next + 1, Plan[j].op \in Queries
             PROVE  /\ "org" \in policy'[Plan[j].at] => Plan[j].at \in skip'
                    /\ Again /\ Plan[j].at \in Foreign(act, M') => Plan[j].at \in skip'
  BY StepFrame DEF Queried, Again
<1> DEFINE k == Plan[j].at
<1>1. k \in Keys
  BY PlanNow DEF Allowed, ConfigureStep, UnconfigureStep, Queries, TypeOK
<1>2. Again => Foreign(act, M') = Foreign(act, M)
  BY RerunStep DEF Foreign, OursKey, M
<1>3. CASE j < next
  <2>1. /\ "org" \in policy[k] => k \in skip
        /\ Again /\ k \in Foreign(act, M) => k \in skip
    BY <1>3 DEF Queried
  <2>2. "org" \in policy'[k] => "org" \in policy[k]
    BY <1>1, OrgKept
  <2>3. QED BY <1>2, <2>1, <2>2, StepMoves
<1>4. CASE j = next
  <2>1. QueryKey
    BY <1>4, WriteIs, RemoveIs
       DEF Executes, LeaveAlone, Exec, NrptAdd, NrptRemove, AddValue, DeleteValue, RecordKey, At,
           Queries
  <2>2. k = Target /\ policy' = policy
    BY <1>4, <2>1 DEF Target, QueryKey, machine
  <2>3. act = "configure" <=> At({"query"})
    <3>1. At({"query"}) \/ At({"query_ours"})
      BY <2>1 DEF QueryKey, At
    <3>2. At({"query"}) => act = "configure"
      BY WhoseStep
    <3>3. At({"query_ours"}) => act = "unconfigure"
      BY WhoseStep
    <3>4. QED BY <3>1, <3>2, <3>3
  <2>4. k \in Foreign(act, M) => k \in skip'
    <3> SUFFICES ASSUME k \in Foreign(act, M) PROVE k \in skip'
      OBVIOUS
    <3>1. ~OursKey(Target, M) /\ (act = "configure" => policy[Target] # {})
      BY <2>2 DEF Foreign, M
    <3>2. ~policy_is_ours(Target)
      BY <3>1, Views
    <3>3. QED BY <2>1, <2>2, <2>3, <3>1, <3>2 DEF QueryKey
  <2>5. "org" \in policy[k] => k \in Foreign(act, M)
    BY <1>1 DEF Places, Foreign, M
  <2>6. QED BY <1>2, <2>2, <2>4, <2>5
<1>5. next \in 1..Len(Plan)
  BY StepFrame
<1>6. QED BY <1>3, <1>4, <1>5

LEMMA PlacesStep ==
  ASSUME TypeOK, Queried, Places, Executes
  PROVE  Places'
<1>0. disk \in [Files -> Content] /\ loaded \in [Daemons -> Content] /\ os' = os
      /\ act \in {"configure", "unconfigure"}
  BY StepFrame DEF TypeOK
<1>n. Nothing.by = "none" /\ \A f, i : BodyFor(f, i).by = "ours"
  BY DEF Nothing, BodyFor, Ours
<1>s. Daemons \subseteq Files /\ PolicyFiles \subseteq Files /\ "user_chrome_plist" \in Files
  BY DEF Files, ManagedPrefs
\* A file that changes is written by configure-os, where it belongs, or removed.
<1>1. \/ disk' = disk
      \/ \E f \in Files : disk' = [disk EXCEPT ![f] = Nothing]
      \/ \E f \in Files : /\ disk' = [disk EXCEPT ![f] = BodyFor(f, ip)]
                          /\ f \in FilesOf(os) /\ f # "user_chrome_plist"
  <2>1. CASE WriteFile
    <3>1. /\ Target \in Files /\ act = "configure" /\ Target = Plan[next].at
          /\ Plan[next].op \in {"write", "write_unmanaged"}
          /\ disk' = [disk EXCEPT ![Target] = BodyFor(Target, ip)] \/ disk' = disk
      BY <2>1, WriteIs
    <3>2. ConfigureStep(os, Plan[next])
      BY <3>1, PlanNow, StepFrame DEF Allowed
    <3>3. Target \in FilesOf(os) /\ Target # "user_chrome_plist"
      BY <3>1, <3>2 DEF ConfigureStep, FilesOf, ManagedPrefs
    <3>4. QED BY <3>1, <3>3
  <2>2. CASE RemoveFile
    BY <2>2, RemoveIs
  <2>3. QED
    BY <2>1, <2>2 DEF Executes, LeaveAlone, Exec, NrptAdd, NrptRemove, QueryKey, AddValue,
                      DeleteValue, RecordKey, machine
<1>2. \A f \in Files : f \notin FilesOf(os) => disk'[f] = Nothing
  BY <1>0, <1>1 DEF Places
<1>3. \A d \in Daemons : os # "linux" => loaded'[d] = Nothing
  <2>1. \A d \in Daemons : os # "linux" => d \notin FilesOf(os)
    BY DEF Daemons, FilesOf, ManagedPrefs, Resolvers
  <2>2. \A d \in Daemons : os # "linux" => disk[d] = Nothing /\ loaded[d] = Nothing
    BY <1>s, <2>1 DEF Places
  <2>3. QED BY <2>2, StepLoads
<1>4. os # "windows" => nrpt' = {} /\ \A k \in Keys : policy'[k] = {}
  <2> SUFFICES ASSUME os # "windows" PROVE nrpt' = {} /\ \A k \in Keys : policy'[k] = {}
    OBVIOUS
  <2>1. nrpt = {} /\ \A k \in Keys : policy[k] = {}
    BY DEF Places
  <2>2. ~NrptAdd
    <3>1. SUFFICES ASSUME NrptAdd PROVE FALSE
      OBVIOUS
    <3>2. act = "configure" /\ Plan[next].op = "nrpt_add"
      BY <3>1, WhoseStep DEF NrptAdd, At
    <3>3. QED BY <3>2, PlanNow, StepFrame DEF Allowed, ConfigureStep
  <2>3. ~AddValue
    <3>1. SUFFICES ASSUME AddValue PROVE FALSE
      OBVIOUS
    <3>2. act = "configure" /\ Plan[next].op = "add"
      BY <3>1, WhoseStep DEF AddValue, At
    <3>3. QED BY <3>2, PlanNow, StepFrame DEF Allowed, ConfigureStep
  <2>4. nrpt' = {}
    BY <2>1, <2>2 DEF Executes, WriteFile, RemoveFile, LeaveAlone, Exec, NrptRemove, QueryKey,
                      AddValue, DeleteValue, RecordKey, machine
  <2>5. CASE UNCHANGED policy
    BY <2>1, <2>4, <2>5
  <2>6. CASE DeleteValue
    <3>1. policy \in [Keys -> SUBSET Values]
      BY DEF TypeOK
    <3>2. policy' = policy \/ policy' = [policy EXCEPT ![Target] = @ \ {Value}]
      BY <2>6 DEF DeleteValue
    <3>3. QED BY <2>1, <2>4, <3>1, <3>2
  <2>7. QED
    BY <2>3, <2>5, <2>6 DEF Executes, WriteFile, RemoveFile, LeaveAlone, Exec, NrptAdd,
                            NrptRemove, QueryKey, RecordKey, machine
<1>5. \A f \in PolicyFiles : disk'[f].by # "user"
  BY <1>0, <1>n, <1>s, <1>1 DEF Places
<1>6. ~Marked(disk'["user_chrome_plist"])
  BY <1>0, <1>n, <1>s, <1>1 DEF Places, Marked
<1>7. \A k \in Keys : "org" \in policy'[k] => ~OursKey(k, M')
  BY OrgKept DEF Places, OursKey, M
<1>8. QED BY <1>0, <1>2, <1>3, <1>4, <1>5, <1>6, <1>7 DEF Places

LEMMA WiringStep ==
  ASSUME TypeOK, Wiring, Executes
  PROVE  Wiring'
<1>0. UNCHANGED <<os, owner, pc, act, ip, wired, activated>> /\ pc # "idle"
      /\ disk \in [Files -> Content]
  BY StepFrame DEF TypeOK
<1>1. ASSUME act = "configure"
      PROVE  \A f \in Files : f \in applied' => disk'[f] = Body(f)
  <2>1. \A f \in Files : f \in applied => disk[f] = Body(f)
    BY <1>0, <1>1 DEF Wiring
  <2>2. CASE WriteFile
    <3>1. Target \in Files
      BY <2>2, WriteIs
    <3>2. CASE disk' = [disk EXCEPT ![Target] = Body(Target)] /\ applied' = applied \cup {Target}
      BY <1>0, <2>1, <3>1, <3>2
    <3>3. CASE UNCHANGED <<disk, applied>>
      BY <2>1, <3>3
    <3>4. QED BY <2>2, <3>2, <3>3 DEF WriteFile
  <2>3. ~RemoveFile
    BY <1>1, RemoveIs
  <2>4. CASE UNCHANGED disk /\ \A f \in Files : f \in applied' => f \in applied
    BY <2>1, <2>4
  <2>5. CASE NrptAdd
    <3>1. "nrpt" \notin Files
      BY DEF Files, Daemons, PolicyFiles, ManagedPrefs, Resolvers
    <3>2. QED BY <2>4, <2>5, <3>1 DEF NrptAdd
  <2>6. CASE RecordKey
    <3>1. Target \in Keys
      BY <2>6, TargetNow DEF RecordKey
    <3>2. Target \notin Files
      BY <3>1 DEF Keys, Files, Daemons, PolicyFiles, ManagedPrefs, Resolvers
    <3>3. QED BY <2>4, <2>6, <3>2 DEF RecordKey, machine
  <2>7. CASE LeaveAlone \/ Exec \/ NrptRemove \/ QueryKey \/ AddValue \/ DeleteValue
    BY <2>4, <2>7 DEF LeaveAlone, Exec, NrptRemove, QueryKey, AddValue, DeleteValue, machine
  <2>8. QED BY <2>2, <2>3, <2>5, <2>6, <2>7 DEF Executes
<1>2. applied \subseteq applied'
  BY DEF Executes, WriteFile, RemoveFile, LeaveAlone, Exec, NrptAdd, NrptRemove, QueryKey,
         AddValue, DeleteValue, RecordKey
<1>3. ASSUME os = "linux", act = "configure", pc = "execute"
      PROVE  applied' \subseteq {owner} \cap Daemons
  <2>1. applied \subseteq {owner} \cap Daemons
    BY <1>3 DEF Wiring
  <2>2. Plan = configure_resolver_steps["linux"][owner] /\ owner \in Owners
    BY <1>3 DEF Plan, TypeOK
  <2>3. /\ Plan[next].op \in {"write", "reload", "flush"}
        /\ Plan[next].op = "write" => Plan[next].at = owner /\ owner \in Daemons
    BY <2>2, ConfigureLinux, StepFrame
  <2>4. CASE WriteFile
    <3>1. Target = owner /\ owner \in Daemons
      BY <2>3, <2>4, WriteIs
    <3>2. QED BY <2>1, <2>4, <3>1 DEF WriteFile
  <2>5. ~NrptAdd /\ ~RecordKey
    BY <2>3 DEF NrptAdd, RecordKey, At
  <2>6. CASE UNCHANGED applied
    BY <2>1, <2>6
  <2>7. QED
    BY <2>4, <2>5, <2>6 DEF Executes, RemoveFile, LeaveAlone, Exec, NrptRemove, QueryKey,
                            AddValue, DeleteValue
<1>4. \A f : Body(f)' = Body(f)
  BY <1>0 DEF Body
<1>5. pc' # "idle" /\ act' = "configure" => \A f \in Files : f \in applied' => disk'[f] = Body(f)'
  BY <1>0, <1>1, <1>4
<1>6. QED BY <1>0, <1>2, <1>3, <1>5 DEF Wiring

LEMMA ExecutesInv ==
  ASSUME TypeOK, Inv, Executes
  PROVE  Inv'
<1>1. Lasting'
  BY StepFrame DEF Lasting
<1>2. QED
  BY <1>1, PassedStep, SkipMeansStep, SettledStep, QueriedStep, PlacesStep, WiringStep DEF Inv

(***************************************************************************)
(* The commands around their plans.                                        *)
(***************************************************************************)
LEMMA SameMachine ==
  ASSUME UNCHANGED machine
  PROVE  M' = M /\ UNCHANGED <<disk, loaded, nrpt, policy, alias, stale>>
BY DEF M, machine

LEMMA SamePlaces ==
  ASSUME Places, UNCHANGED <<os, disk, loaded, nrpt, policy>>
  PROVE  Places'
BY DEF Places, OursKey, M

LEMMA IdlePlan ==
  ASSUME pc' = "idle"
  PROVE  Passed' /\ Queried' /\ Wiring'
<1>1. Plan' = <<>>
  BY DEF Plan
<1>2. Queried'
  BY <1>1 DEF Queried
<1>3. QED BY <1>2 DEF Passed, Wiring

LEMMA InvokeInv ==
  ASSUME TypeOK, Inv, NEW a \in {"configure", "unconfigure"}, NEW i \in Ips, NEW b \in BOOLEAN,
         NEW elevated \in BOOLEAN, Invoke(a, i, b, elevated)
  PROVE  Inv'
<1>1. /\ pc = "idle" /\ next' = 1 /\ skip' = {} /\ applied' = {} /\ activated' = FALSE
      /\ pc' \in {"idle", "execute"} /\ UNCHANGED <<os, owner, last>> /\ UNCHANGED machine
  BY DEF Invoke
<1>2. M' = M /\ UNCHANGED <<disk, loaded, nrpt, policy>>
  BY <1>1, SameMachine
<1>3. Passed' /\ Queried'
  <2>1. \A j \in 1..Len(Plan') : ~(j < next')
    <3>1. \A j \in 1..Len(Plan') : j >= 1
      OBVIOUS
    <3>2. QED BY <1>1, <3>1
  <2>2. AllDone(Plan', next', act', ip', skip', M')
    BY <2>1 DEF AllDone
  <2>3. QED BY <1>1, <2>1, <2>2 DEF Passed, Queried
<1>4. SkipMeans'
  BY <1>1 DEF SkipMeans
<1>5. Settled'
  BY <1>1, <1>2 DEF Inv, Settled
<1>6. Places'
  BY <1>1, <1>2, SamePlaces DEF Inv
<1>7. Wiring' /\ Lasting'
  BY <1>1 DEF Wiring, Lasting
<1>8. QED BY <1>3, <1>4, <1>5, <1>6, <1>7 DEF Inv

LEMMA PlanEndsInv ==
  ASSUME TypeOK, Inv, PlanEnds
  PROVE  Inv'
<1>1. /\ pc = "execute" /\ pc' = "browser" /\ next' = 1 /\ next > Len(Plan)
      /\ UNCHANGED <<os, owner, act, ip, browser, skip, applied, activated, clean, last>>
      /\ UNCHANGED machine /\ wired' = (act = "configure" /\ applied # {})
  BY DEF PlanEnds, call
<1>2. M' = M /\ UNCHANGED <<disk, loaded, nrpt, policy>>
  BY <1>1, SameMachine
<1>3. \A j \in 1..Len(Plan') : ~(j < next')
  <2>1. \A j \in 1..Len(Plan') : j >= 1
    OBVIOUS
  <2>2. QED BY <1>1, <2>1
<1>4. Passed'
  <2>1. AllDone(Plan', next', act', ip', skip', M')
    BY <1>3 DEF AllDone
  <2>2. ASSUME clean, NEW P, P = PlanOf("execute", act, os, owner, browser)
        PROVE  AllDone(P, Len(P) + 1, act, ip, skip, M)
    <3>1. Plan = P /\ Len(P) \in Nat /\ next \in Nat
      BY <1>1, <2>2, PlanNow DEF TypeOK
    <3>2. AllDone(P, next, act, ip, skip, M)
      BY <1>1, <2>2, <3>1 DEF Inv, Passed
    <3>3. \A j \in 1..Len(P) : j < next
      BY <1>1, <3>1
    <3>4. QED BY <3>2, <3>3 DEF AllDone
  <2>3. QED BY <1>1, <1>2, <2>1, <2>2 DEF Passed
<1>5. Queried'
  BY <1>3 DEF Queried
<1>6. SkipMeans' /\ Settled'
  BY <1>1, <1>2 DEF Inv, SkipMeans, Settled, Again
<1>7. Places'
  BY <1>1, <1>2, SamePlaces DEF Inv
<1>8. Wiring'
  <2>1. os = "linux" /\ act = "configure" => applied \subseteq {owner} \cap Daemons
    BY <1>1 DEF Inv, Wiring
  <2>2. act = "configure" => \A f \in Files : f \in applied => disk[f] = Body(f)
    BY <1>1 DEF Inv, Wiring
  <2>3. os = "linux" /\ act = "configure" /\ wired' => owner \in applied /\ owner \in Daemons
    BY <1>1, <2>1
  <2>4. ~activated
    BY <1>1 DEF Inv, Wiring
  <2>5. QED BY <1>1, <1>2, <2>2, <2>3, <2>4 DEF Wiring, Body
<1>9. Lasting'
  BY <1>1 DEF Lasting
<1>10. QED BY <1>4, <1>5, <1>6, <1>7, <1>8, <1>9 DEF Inv

\* A command that ends without a failure leaves its whole plan in effect.
LEMMA ReturnsSettled ==
  ASSUME TypeOK, Inv, pc = "browser", next > Len(Plan), Returns
  PROVE  Settled'
<1> SUFFICES ASSUME clean PROVE SettledBy(last', os, M)
  <2>1. M' = M /\ os' = os /\ last'.clean = clean
    BY SameMachine DEF Returns
  <2>2. QED BY <2>1 DEF Settled
<1>1. last'.act = act /\ last'.ip = ip /\ last'.owner = owner /\ last'.browser = browser
  BY DEF Returns
<1>2. act \in {"configure", "unconfigure"} /\ os \in Systems /\ owner \in Owners
  BY OsesAssumption DEF TypeOK
<1>3. skip \subseteq Foreign(act, M)
  BY DEF Inv, SkipMeans
<1>4. ASSUME NEW p \in {"execute", "browser"}, NEW P, P = PlanOf(p, act, os, owner, browser)
      PROVE  AllDone(P, Len(P) + 1, act, ip, Foreign(act, M), M)
  <2>1. AllDone(P, Len(P) + 1, act, ip, skip, M)
    <3>1. CASE p = "execute"
      BY <1>4, <3>1 DEF Inv, Passed
    <3>2. CASE p = "browser"
      <4>1. Plan = P /\ Len(P) \in Nat /\ next \in Nat
        BY <1>4, <3>2, PlanNow DEF TypeOK
      <4>2. AllDone(P, next, act, ip, skip, M)
        BY <4>1 DEF Inv, Passed
      <4>3. \A j \in 1..Len(P) : j < next
        BY <4>1
      <4>4. QED BY <4>2, <4>3 DEF AllDone
    <3>3. QED BY <3>1, <3>2
  <2>2. Allowed(P, act, os)
    BY <1>2, <1>4, PlansAllowed
  <2>3. Moves(act, M, M, ip)
    BY CalmMoves DEF Calm
  <2>4. QED BY <1>2, <1>3, <2>1, <2>2, <2>3, AllDoneKept
<1>5. QED BY <1>1, <1>4 DEF SettledBy

LEMMA ReturnsInv ==
  ASSUME TypeOK, Inv, pc = "browser", next > Len(Plan), Returns, Lasting'
  PROVE  Inv'
<1>1. pc' = "idle" /\ skip' = {} /\ UNCHANGED machine /\ UNCHANGED <<os>>
  BY DEF Returns
<1>2. Places'
  BY <1>1, SameMachine, SamePlaces DEF Inv
<1>3. SkipMeans'
  BY <1>1 DEF SkipMeans
<1>4. QED BY <1>1, <1>2, <1>3, IdlePlan, ReturnsSettled DEF Inv

LEMMA UnconfigureEndsInv ==
  ASSUME TypeOK, Inv, UnconfigureEnds
  PROVE  Inv'
<1>1. ~activated /\ activated' = activated
  BY DEF Inv, Wiring, UnconfigureEnds
<1>2. Lasting'
  BY <1>1 DEF Lasting
<1>3. QED BY <1>2, ReturnsInv DEF UnconfigureEnds

LEMMA VerifyInv ==
  ASSUME TypeOK, Inv, NEW answers \in BOOLEAN, Verify(answers)
  PROVE  Inv'
<1>1. /\ pc = "browser" /\ act = "configure" /\ next > Len(Plan) /\ Returns
      /\ activated' = (wired /\ verify_os_routing(answers))
  BY DEF Verify
<1>2. /\ UNCHANGED machine /\ last'.ip = ip /\ UNCHANGED <<os, owner, applied>>
  BY <1>1 DEF Returns
<1>3. UNCHANGED <<disk, loaded, nrpt, alias>>
  BY <1>2, SameMachine
<1>4. Lasting'
  <2> SUFFICES ASSUME activated', os = "macos" => "lo0_plist" \in applied
               PROVE  Live(ip)
    BY <1>2, <1>3 DEF Lasting, Live, Routed
  <2>1. wired /\ Routed(ip)
    BY <1>1 DEF verify_os_routing
  <2>2. \A f \in Files : f \in applied => disk[f] = Body(f)
    BY <1>1 DEF Inv, Wiring
  <2>3. os = "linux" => disk[owner].by # "none" /\ disk[owner].ip = ip
    <3>1. os = "linux" => owner \in applied /\ owner \in Daemons
      BY <1>1, <2>1 DEF Inv, Wiring
    <3>2. \A d \in Daemons : d \in Files /\ Body(d) = Ours(ip)
      BY DEF Daemons, Files, Body, PolicyFiles, ManagedPrefs
    <3>3. QED BY <2>2, <3>1, <3>2 DEF Ours
  <2>4. os = "macos" => disk["lo0_plist"].by # "none" /\ disk["lo0_plist"].ip = ip
    <3>1. "lo0_plist" \in Files /\ Body("lo0_plist") = Ours(ip)
      BY DEF Files, Body, PolicyFiles, ManagedPrefs
    <3>2. QED BY <2>2, <3>1 DEF Ours
  <2>5. QED BY <2>1, <2>3, <2>4 DEF Live
<1>5. QED BY <1>1, <1>4, ReturnsInv

LEMMA KilledInv ==
  ASSUME TypeOK, Inv, Killed
  PROVE  Inv'
<1>1. /\ pc' = "idle" /\ last' = Never /\ skip' = {} /\ UNCHANGED <<os>>
      /\ UNCHANGED <<disk, loaded, nrpt, policy, alias, stale>>
  BY DEF Killed
<1>2. Places'
  BY <1>1 DEF Inv, Places, OursKey, M
<1>3. SkipMeans' /\ Settled' /\ Lasting'
  BY <1>1 DEF SkipMeans, Settled, Lasting
<1>4. QED BY <1>1, <1>2, <1>3, IdlePlan DEF Inv

(***************************************************************************)
(* The rest of the machine.                                                *)
(***************************************************************************)
\* What reads drop-ins, or only remembers a failed lookup.
LEMMA CalmInv ==
  ASSUME TypeOK, Inv, Calm(M, M'), UNCHANGED <<os, owner, disk, nrpt, policy>>,
         UNCHANGED <<pc, next, act, ip, browser, skip, applied, wired, activated, clean, last>>,
         Lasting'
  PROVE  Inv'
<1>0. act \in {"configure", "unconfigure"} /\ os \in Systems /\ owner \in Owners
  BY OsesAssumption DEF TypeOK
<1>1. Plan' = Plan
  BY DEF Plan
<1>2. Moves(act, M, M', ip) /\ \A a : Foreign(a, M') = Foreign(a, M)
  BY CalmMoves
<1>3. Passed'
  <2> SUFFICES ASSUME pc # "idle", clean PROVE Passed'
    BY DEF Passed
  <2>1. AllDone(Plan, next, act, ip, skip, M')
    BY <1>0, <1>2, PlanNow, AllDoneKept DEF Inv, Passed
  <2>2. ASSUME pc = "browser", NEW P, P = PlanOf("execute", act, os, owner, browser)
        PROVE  AllDone(P, Len(P) + 1, act, ip, skip, M')
    <3>1. AllDone(P, Len(P) + 1, act, ip, skip, M)
      BY <2>2 DEF Inv, Passed
    <3>2. Allowed(P, act, os)
      BY <1>0, <2>2, PlansAllowed
    <3>3. QED BY <1>0, <1>2, <3>1, <3>2, AllDoneKept
  <2>3. QED BY <1>1, <2>1, <2>2 DEF Passed
<1>4. SkipMeans'
  BY <1>2 DEF Inv, SkipMeans
<1>5. Settled'
  <2> SUFFICES ASSUME last # Never, last.clean, pc = "idle" \/ Again
               PROVE  SettledBy(last, os, M')
    BY DEF Settled, Again
  <2>1. SettledBy(last, os, M) /\ last \in Call
    BY DEF Inv, Settled, TypeOK
  <2>2. QED BY <1>0, <2>1, SettledKept
<1>6. Queried'
  BY <1>1, <1>2 DEF Inv, Queried, Again
<1>7. Places'
  <2>1. \A d \in Daemons : os # "linux" => loaded'[d] = Nothing
    <3>1. \A d \in Daemons : os # "linux" => d \notin FilesOf(os) /\ d \in Files
      BY DEF Daemons, FilesOf, ManagedPrefs, Resolvers, Files
    <3>2. \A d \in Daemons : os # "linux" => disk[d] = Nothing /\ loaded[d] = Nothing
      BY <3>1 DEF Inv, Places
    <3>3. QED BY <3>2 DEF Calm, M
  <2>2. QED BY <2>1 DEF Inv, Places, OursKey, M
<1>8. Wiring'
  BY DEF Inv, Wiring, Body
<1>9. QED BY <1>3, <1>4, <1>5, <1>6, <1>7, <1>8 DEF Inv

LEMMA RebootInv ==
  ASSUME TypeOK, Inv, Reboot
  PROVE  Inv'
<1>1. Calm(M, M')
  BY DEF Reboot, Calm, M
<1>2. Lasting'
  <2> SUFFICES ASSUME last # Never, pc = "idle", result = "ok", activated,
                      os = "macos" => "lo0_plist" \in applied
               PROVE  Live(last.ip)'
    BY DEF Lasting, Reboot, report
  <2>1. Live(last.ip)
    BY DEF Inv, Lasting
  <2>2. loaded' = [d \in Daemons |-> disk[d]]
        /\ alias' = (IF disk["lo0_plist"].by = "none" THEN {} ELSE {disk["lo0_plist"].ip})
        /\ UNCHANGED <<os, owner, disk, nrpt, last>>
    BY DEF Reboot
  <2>3. Routed(last.ip)'
    BY <2>1, <2>2 DEF Live, Routed
  <2>4. QED BY <2>1, <2>2, <2>3 DEF Live
<1>3. QED BY <1>1, <1>2, CalmInv DEF Reboot, call, report

LEMMA DaemonRestartsInv ==
  ASSUME TypeOK, Inv, NEW d \in Daemons, DaemonRestarts(d)
  PROVE  Inv'
<1>0. loaded' = [loaded EXCEPT ![d] = disk[d]] /\ loaded \in [Daemons -> Content]
      /\ UNCHANGED <<os, owner, disk, nrpt, alias, last, pc, result, activated, applied>>
  BY DEF DaemonRestarts, TypeOK, report
<1>1. Calm(M, M')
  BY <1>0 DEF DaemonRestarts, Calm, M
<1>2. Lasting'
  <2> SUFFICES ASSUME last # Never, pc = "idle", result = "ok", activated,
                      os = "macos" => "lo0_plist" \in applied
               PROVE  Live(last.ip)'
    BY <1>0 DEF Lasting
  <2>1. Live(last.ip)
    BY DEF Inv, Lasting
  <2>2. Routed(last.ip)'
    BY <1>0, <2>1 DEF Live, Routed
  <2>3. QED BY <1>0, <2>1, <2>2 DEF Live
<1>3. QED BY <1>1, <1>2, CalmInv DEF DaemonRestarts, call, report

LEMMA LookupFailsInv ==
  ASSUME TypeOK, Inv, LookupFails
  PROVE  Inv'
<1>1. Calm(M, M')
  BY DEF LookupFails, Calm, M
<1>2. Lasting'
  BY DEF LookupFails, Inv, Lasting, Live, Routed, report
<1>3. QED BY <1>1, <1>2, CalmInv DEF LookupFails, call, report

\* What somebody else does while no command runs.
LEMMA OthersInv ==
  ASSUME TypeOK, Inv, pc = "idle", pc' = "idle", last' = Never, Places',
         UNCHANGED <<policy, act, skip, clean>>
  PROVE  Inv'
<1>1. SkipMeans'
  BY DEF Inv, SkipMeans, Foreign, OursKey, M
<1>2. Settled' /\ Lasting'
  BY DEF Settled, Lasting
<1>3. QED BY <1>1, <1>2, IdlePlan DEF Inv

LEMMA UserRuleInv ==
  ASSUME TypeOK, Inv, NEW f \in Files, UserRule(f)
  PROVE  Inv'
<1>1. /\ f \in FilesOf(os) /\ f \notin PolicyFiles /\ f # "user_chrome_plist"
      /\ disk' = [disk EXCEPT ![f] = Theirs] /\ disk \in [Files -> Content]
      /\ UNCHANGED <<os, loaded, nrpt, policy>>
  BY DEF UserRule, FilesOf, Daemons, PolicyFiles, Resolvers, TypeOK
<1>2. \A g \in Files : g \notin FilesOf(os) => disk'[g] = Nothing
  BY <1>1 DEF Inv, Places
<1>3. \A g \in PolicyFiles : g \in Files /\ disk'[g] = disk[g]
  BY <1>1 DEF Files
<1>4. disk'["user_chrome_plist"] = disk["user_chrome_plist"]
  BY <1>1 DEF Files, ManagedPrefs
<1>5. Places'
  BY <1>1, <1>2, <1>3, <1>4 DEF Inv, Places, OursKey, M
<1>6. QED BY <1>5, OthersInv DEF UserRule, call

LEMMA SurroundingsInv ==
  ASSUME TypeOK, Inv, Surroundings
  PROVE  Inv'
<1>1. ASSUME NEW o \in Owners, OwnerChanges(o) PROVE Inv'
  <2>1. Places'
    BY <1>1, SameMachine, SamePlaces DEF OwnerChanges, Inv
  <2>2. UNCHANGED policy
    BY <1>1, SameMachine DEF OwnerChanges
  <2>3. QED BY <1>1, <2>1, <2>2, OthersInv DEF OwnerChanges, call
<1>2. CASE UserNrptRule
  <2>1. Places'
    BY <1>2 DEF UserNrptRule, Inv, Places, OursKey, M
  <2>2. QED BY <1>2, <2>1, OthersInv DEF UserNrptRule, call
<1>3. QED
  BY <1>1, <1>2, RebootInv, DaemonRestartsInv, LookupFailsInv, UserRuleInv DEF Surroundings

(***************************************************************************)
(* The invariant holds.                                                    *)
(***************************************************************************)
LEMMA InitBefore ==
  ASSUME Init
  PROVE  \E prior \in {"fresh", "legacy", "user", "othertld"}, i \in Ips : Before(prior, os, i)
BY PriorsAssumption DEF Init

LEMMA MachineInit ==
  ASSUME Init
  PROVE  disk \in [Files -> Content] /\ nrpt \subseteq Content /\ policy \in [Keys -> SUBSET Values]
<1>1. PICK prior \in {"fresh", "legacy", "user", "othertld"}, i \in Ips : Before(prior, os, i)
  BY InitBefore
<1>2. /\ Nothing \in Content /\ Theirs \in Content /\ Legacy(i) \in Content
      /\ [by |-> "bare", ip |-> i] \in Content
  BY ContentType
<1>3. LegacyFiles(os, i) \in [Files -> Content]
  BY <1>2 DEF LegacyFiles
<1>4. UserFiles(os) \in [Files -> Content]
  BY <1>2 DEF UserFiles
<1>o. OtherTldFiles(os, i) \in [Files -> Content]
  BY ContentType DEF OtherTldFiles
<1>5. disk \in [Files -> Content]
  BY <1>1, <1>2, <1>3, <1>4, <1>o DEF Before
<1>6. nrpt \subseteq Content
  <2>1. nrpt = {} \/ nrpt = {Legacy(i)} \/ nrpt = {Theirs}
    BY <1>1 DEF Before
  <2>2. QED BY <1>2, <2>1
<1>7. policy \in [Keys -> SUBSET Values]
  BY <1>1 DEF Before, Values
<1>8. QED BY <1>5, <1>6, <1>7

LEMMA TypeInit ==
  ASSUME Init
  PROVE  TypeOK
<1>1. disk \in [Files -> Content] /\ nrpt \subseteq Content /\ policy \in [Keys -> SUBSET Values]
  BY MachineInit
<1>2. loaded \in [Daemons -> Content]
  BY <1>1 DEF Init, Files
<1>3. alias \subseteq Ips \cup {Elsewhere}
  <2>1. disk["lo0_plist"].ip \in Ips \cup {Elsewhere}
    BY <1>1 DEF Files, Content
  <2>2. QED BY <2>1 DEF Init
<1>4. owner \in Owners
  BY DEF Init, Owners
<1>5. runs \in 0..MaxRuns /\ faults \in 0..MaxFaults /\ next \in Nat \ {0}
  BY BoundsAssumption DEF Init
<1>6. QED BY <1>1, <1>2, <1>3, <1>4, <1>5 DEF Init, TypeOK

LEMMA PlacesInit ==
  ASSUME Init
  PROVE  Places
<1>1. PICK prior \in {"fresh", "legacy", "user", "othertld"}, i \in Ips : Before(prior, os, i)
  BY InitBefore
<1>2. /\ disk = CASE prior = "legacy" -> LegacyFiles(os, i)
                  [] prior = "user" -> UserFiles(os)
                  [] prior = "othertld" -> OtherTldFiles(os, i)
                  [] OTHER -> [f \in Files |-> Nothing]
      /\ loaded = [d \in Daemons |-> disk[d]]
  BY <1>1 DEF Before, Init
<1>3. \A f \in Files : f \notin FilesOf(os) => disk[f] = Nothing
  <2> SUFFICES ASSUME NEW f \in Files, f \notin FilesOf(os) PROVE disk[f] = Nothing
    OBVIOUS
  <2>1. /\ LegacyFiles(os, i)[f] = Nothing /\ UserFiles(os)[f] = Nothing
        /\ OtherTldFiles(os, i)[f] = Nothing
    BY DEF LegacyFiles, UserFiles, OtherTldFiles
  <2>2. \/ disk = LegacyFiles(os, i) \/ disk = UserFiles(os) \/ disk = OtherTldFiles(os, i)
        \/ disk = [g \in Files |-> Nothing]
    BY <1>2
  <2>3. QED BY <2>1, <2>2
<1>4. \A d \in Daemons : os # "linux" => loaded[d] = Nothing
  <2>1. \A d \in Daemons : os # "linux" => d \notin FilesOf(os) /\ d \in Files
    BY DEF Daemons, FilesOf, ManagedPrefs, Resolvers, Files
  <2>2. QED BY <1>2, <1>3, <2>1
<1>5. os # "windows" => nrpt = {} /\ \A k \in Keys : policy[k] = {}
  BY <1>1 DEF Before
<1>6. \A f \in PolicyFiles : disk[f].by # "user"
  <2> SUFFICES ASSUME NEW f \in PolicyFiles PROVE disk[f].by # "user"
    OBVIOUS
  <2>1. /\ f \in Files /\ f # "resolver_file" /\ f # "user_chrome_plist"
        /\ f # "lo0_plist" /\ f # "other_resolver_file" /\ f \notin Daemons
    BY DEF Files, PolicyFiles, Daemons
  <2>2. disk[f] = Nothing \/ disk[f] = Legacy(i)
    BY <1>2, <2>1 DEF LegacyFiles, UserFiles, OtherTldFiles
  <2>3. QED BY <2>2 DEF Nothing, Legacy
<1>7. ~Marked(disk["user_chrome_plist"])
  <2>1. "user_chrome_plist" \in Files /\ "user_chrome_plist" \notin Daemons
    BY DEF Files, ManagedPrefs, Daemons
  <2>2. disk["user_chrome_plist"] = Nothing \/ disk["user_chrome_plist"] = Theirs
    BY <1>2, <2>1 DEF LegacyFiles, UserFiles, OtherTldFiles
  <2>3. QED BY <2>2 DEF Nothing, Theirs, Marked
<1>8. \A k \in Keys : "org" \in policy[k] => ~OursKey(k, M)
  <2> SUFFICES ASSUME NEW k \in Keys, "org" \in policy[k] PROVE policy[k] \cap {"marker", "legacy"} = {}
    BY DEF OursKey, M
  <2>1. policy[k] = {} \/ policy[k] = {"key", "doh", "builtin", "legacy"} \/ policy[k] = {"key", "org"}
    BY <1>1 DEF Before
  <2>2. QED BY <2>1
<1>9. QED BY <1>3, <1>4, <1>5, <1>6, <1>7, <1>8 DEF Places

LEMMA InvInit ==
  ASSUME Init
  PROVE  Inv
<1>1. pc = "idle" /\ last = Never /\ skip = {} /\ next = 1
  BY DEF Init
<1>2. Plan = <<>>
  BY <1>1 DEF Plan
<1>3. Queried
  BY <1>2 DEF Queried
<1>4. Passed /\ SkipMeans /\ Settled /\ Wiring /\ Lasting
  BY <1>1 DEF Passed, SkipMeans, Settled, Wiring, Lasting
<1>5. QED BY <1>3, <1>4, PlacesInit DEF Inv

LEMMA InvStep ==
  ASSUME TypeOK, Inv, [Next]_vars
  PROVE  Inv'
<1>1. CASE UNCHANGED vars
  <2>1. Calm(M, M')
    BY <1>1 DEF Calm, M, vars, machine
  <2>2. UNCHANGED <<os, owner, disk, nrpt, policy, loaded, alias>>
    BY <1>1 DEF vars, machine
  <2>3. UNCHANGED <<pc, next, act, ip, browser, skip, applied, wired, activated, clean, last, result>>
    BY <1>1 DEF vars, call, report
  <2>4. Lasting'
    BY <2>2, <2>3 DEF Inv, Lasting, Live, Routed
  <2>5. QED BY <2>1, <2>2, <2>3, <2>4, CalmInv
<1>2. QED
  BY <1>1, NextParts, InvokeInv, ExecutesInv, PlanEndsInv, UnconfigureEndsInv, VerifyInv,
     KilledInv, SurroundingsInv

LEMMA AlwaysInv == Spec => [](TypeOK /\ Inv)
<1>1. Init => TypeOK /\ Inv
  BY TypeInit, InvInit
<1>2. TypeOK /\ Inv /\ [Next]_vars => (TypeOK /\ Inv)'
  BY TypeStep, InvStep
<1>3. QED BY <1>1, <1>2, PTL DEF Spec

(***************************************************************************)
(* The properties.                                                         *)
(***************************************************************************)
\* The machine, the commands and their reports stay within their types, whatever fails and
\* whoever else writes; no plan is walked past its end (execute_plan).
THEOREM OsConfigTypes == Spec => []TypeOK
BY AlwaysInv, PTL

LEMMA ResidueOfFiles ==
  ASSUME TypeOK, Inv, last \in Call, last.act = "unconfigure", SettledBy(last, os, M),
         NEW f \in Files \ {"other_resolver_file"}
  PROVE  ~Marked(disk[f])
<1> DEFINE P == PlanOf("execute", last.act, os, last.owner, last.browser)
           Q == PlanOf("browser", last.act, os, last.owner, last.browser)
           K == Foreign(last.act, M)
<1>1. /\ P = unconfigure_resolver_steps[os] /\ Q = remove_browser_policy[os]
  BY DEF PlanOf
<1>2. /\ AllDone(P, Len(P) + 1, last.act, last.ip, K, M)
      /\ AllDone(Q, Len(Q) + 1, last.act, last.ip, K, M)
  BY DEF SettledBy
<1>3. Len(P) \in Nat /\ Len(Q) \in Nat
  <2>1. last.act \in {"configure", "unconfigure"} /\ last.owner \in Owners /\ os \in Systems
    BY OsesAssumption DEF Call, TypeOK
  <2>2. QED BY <2>1, PlansAllowed
<1> HIDE DEF P, Q, K
<1>4. ASSUME Has(P, "remove_ours", f) \/ Has(Q, "remove_ours", f) \/ Has(Q, "remove_on_sight", f)
      PROVE  ~Marked(disk[f])
  <2>1. CASE Has(P, "remove_ours", f)
    <3>1. PICK j \in 1..Len(P) : P[j].op = "remove_ours" /\ P[j].at = f
      BY <2>1 DEF Has
    <3>2. Done(P[j], last.act, last.ip, K, M)
      BY <1>2, <1>3 DEF AllDone
    <3>3. QED BY <3>1, <3>2 DEF Done, M, OursFor, Marked
  <2>2. CASE Has(Q, "remove_ours", f) \/ Has(Q, "remove_on_sight", f)
    <3>1. PICK j \in 1..Len(Q) : Q[j].op \in {"remove_ours", "remove_on_sight"} /\ Q[j].at = f
      BY <2>2 DEF Has
    <3>2. Done(Q[j], last.act, last.ip, K, M)
      BY <1>2, <1>3 DEF AllDone
    <3>3. QED BY <3>1, <3>2 DEF Done, M, OursFor, Marked
  <2>3. QED BY <1>4, <2>1, <2>2
<1>5. CASE f \notin FilesOf(os)
  BY <1>5 DEF Inv, Places, Nothing, Marked
<1>6. CASE f \in FilesOf(os) /\ os = "linux"
  <2>1. f \in Daemons \/ f \in PolicyFiles
    BY <1>6 DEF FilesOf
  <2>2. QED BY <1>1, <1>4, <1>6, <2>1, UnconfigureLinux, RemoveFiles
<1>7. CASE f \in FilesOf(os) /\ os = "macos"
  <2>1. f \in {"lo0_plist", "resolver_file", "chrome_plist", "user_chrome_plist"}
    BY <1>7 DEF FilesOf, ManagedPrefs, Resolvers
  <2>2. CASE f = "user_chrome_plist"
    BY <2>2 DEF Inv, Places
  <2>3. QED BY <1>1, <1>4, <1>7, <2>1, <2>2, UnconfigureMac, RemoveFiles
<1>8. QED BY <1>5, <1>6, <1>7 DEF FilesOf

LEMMA ResidueElsewhere ==
  ASSUME TypeOK, Inv, last \in Call, last.act = "unconfigure", SettledBy(last, os, M)
  PROVE  /\ \A d \in Daemons : ~Marked(loaded[d])
         /\ \A r \in nrpt : ~Marked(r)
         /\ \A k \in Keys : policy[k] \cap {"marker", "legacy"} = {}
<1> DEFINE P == PlanOf("execute", last.act, os, last.owner, last.browser)
           Q == PlanOf("browser", last.act, os, last.owner, last.browser)
           K == Foreign(last.act, M)
<1>1. /\ P = unconfigure_resolver_steps[os] /\ Q = remove_browser_policy[os]
  BY DEF PlanOf
<1>2. /\ AllDone(P, Len(P) + 1, last.act, last.ip, K, M)
      /\ AllDone(Q, Len(Q) + 1, last.act, last.ip, K, M)
  BY DEF SettledBy
<1>3. Len(P) \in Nat /\ Len(Q) \in Nat
  <2>1. last.act \in {"configure", "unconfigure"} /\ last.owner \in Owners /\ os \in Systems
    BY OsesAssumption DEF Call, TypeOK
  <2>2. QED BY <2>1, PlansAllowed
<1>k. K = Foreign("unconfigure", M)
  OBVIOUS
<1> HIDE DEF P, Q, K
<1>4. \A d \in Daemons : ~Marked(loaded[d])
  <2> SUFFICES ASSUME NEW d \in Daemons PROVE ~Marked(loaded[d])
    OBVIOUS
  <2>1. CASE os # "linux"
    BY <2>1 DEF Inv, Places, Nothing, Marked
  <2>2. CASE os = "linux"
    <3>1. PICK j \in 1..Len(P) : P[j].op = "reload" /\ P[j].at = d
      BY <1>1, <2>2, UnconfigureLinux DEF Has
    <3>2. Done(P[j], last.act, last.ip, K, M)
      BY <1>2, <1>3 DEF AllDone
    <3>3. QED BY <3>1, <3>2 DEF Done, M
  <2>3. QED BY <2>1, <2>2
<1>5. \A r \in nrpt : ~Marked(r)
  <2>1. CASE os # "windows"
    BY <2>1 DEF Inv, Places
  <2>2. CASE os = "windows"
    <3>1. PICK j \in 1..Len(P) : P[j].op = "nrpt_remove"
      BY <1>1, <2>2, UnconfigureWindows DEF Has
    <3>2. Done(P[j], last.act, last.ip, K, M)
      BY <1>2, <1>3 DEF AllDone
    <3>3. QED BY <3>1, <3>2 DEF Done, M
  <2>3. QED BY <2>1, <2>2
<1>6. \A k \in Keys : policy[k] \cap {"marker", "legacy"} = {}
  <2> SUFFICES ASSUME NEW k \in Keys PROVE policy[k] \cap {"marker", "legacy"} = {}
    OBVIOUS
  <2>1. CASE os # "windows"
    BY <2>1 DEF Inv, Places
  <2>2. CASE os = "windows"
    <3>1. ASSUME NEW v \in {"marker", "legacy"} PROVE k \in K \/ v \notin policy[k]
      <4>1. PICK j \in 1..Len(Q) : Q[j].op = "delete" /\ Q[j].at = k /\ Q[j].value = v
        BY <1>1, <2>2, RemoveKeys DEF Deletes
      <4>2. Done(Q[j], last.act, last.ip, K, M)
        BY <1>2, <1>3 DEF AllDone
      <4>3. QED BY <4>1, <4>2 DEF Done, M
    <3>2. k \in K => policy[k] \cap {"marker", "legacy"} = {}
      BY <1>k DEF Foreign, OursKey, M
    <3>3. QED BY <3>1, <3>2
  <2>3. QED BY <2>1, <2>2
<1>7. QED BY <1>4, <1>5, <1>6

\* Temporary files come of writes that were cut short, and of nothing else.
Temps == faults = 0 => temps = {}

LEMMA TempsStep ==
  ASSUME TypeOK, Temps, [Next]_vars
  PROVE  Temps'
<1>1. UNCHANGED <<temps, faults>> \/ faults' = faults + 1
  <2>1. CASE Executes
    BY <2>1 DEF Executes, WriteFile, RemoveFile, LeaveAlone, Exec, NrptAdd, NrptRemove, QueryKey,
                AddValue, DeleteValue, RecordKey, Succeeds, Fails, machine
  <2>2. CASE Surroundings
    BY <2>2 DEF Surroundings, Reboot, DaemonRestarts, LookupFails, OwnerChanges, UserRule,
                UserNrptRule, Counted
  <2>3. CASE Killed
    BY <2>3 DEF Killed, Counted
  <2>4. CASE UNCHANGED vars
    BY <2>4 DEF vars, machine
  <2>5. CASE \/ \E a \in {"configure", "unconfigure"}, i \in Ips, b, elevated \in BOOLEAN :
                  Invoke(a, i, b, elevated)
             \/ PlanEnds \/ UnconfigureEnds \/ (\E answers \in BOOLEAN : Verify(answers))
    BY <2>5 DEF Invoke, PlanEnds, UnconfigureEnds, Verify, Returns, machine
  <2>6. QED BY <2>1, <2>2, <2>3, <2>4, <2>5, NextParts
<1>2. faults \in Nat
  BY DEF TypeOK
<1>3. QED BY <1>1, <1>2 DEF Temps

LEMMA AlwaysTemps == Spec => []Temps
<1>1. Init => Temps
  BY DEF Init, Temps
<1>2. TypeOK /\ Temps /\ [Next]_vars => Temps'
  BY TempsStep
<1>3. QED BY <1>1, <1>2, AlwaysInv, PTL DEF Spec

\* An unconfigure-os that had no failure leaves no marked artifact under its name on disk,
\* in a resolver, in the NRPT or in a policy key, after any history of commands for its
\* tld, of kills, failures, changes of address and of resolver, and through any number of
\* reboots.  The /etc/resolver file of another tld stays, and so does the temporary file
\* of a write that was cut short: there is none only if nothing ever failed
\* (unconfigure, atomic_write).
THEOREM NothingLeftBehind == Spec => []ZeroResidue
<1>1. ASSUME TypeOK, Inv, Temps PROVE ZeroResidue
  <2> SUFFICES ASSUME last # Never, last.act = "unconfigure", last.clean, pc = "idle"
      PROVE  /\ \A f \in Files \ {"other_resolver_file"} : ~Marked(disk[f])
             /\ \A d \in Daemons : ~Marked(loaded[d])
             /\ \A r \in nrpt : ~Marked(r)
             /\ \A k \in Keys : policy[k] \cap {"marker", "legacy"} = {}
             /\ faults = 0 => temps = {}
    BY DEF ZeroResidue
  <2>1. last \in Call /\ SettledBy(last, os, M)
    BY <1>1 DEF TypeOK, Inv, Settled
  <2>2. QED BY <1>1, <2>1, ResidueOfFiles, ResidueElsewhere DEF Temps
<1>2. QED BY <1>1, AlwaysInv, AlwaysTemps, PTL

\* A configure-os that reported the tld live has made it last through every later reboot
\* and restart of a daemon (configure, apply_activation_result, launchd_lo0_alias_plist).
THEOREM StaysActive == Spec => []ActivationLasts
<1>1. ASSUME Inv PROVE ActivationLasts
  BY <1>1 DEF Inv, Lasting, Live, ActivationLasts
<1>2. QED BY <1>1, AlwaysInv, PTL

\* No step of either command removes or changes what somebody else wrote
\* (remove_if_ours, nrpt_remove_ps_command, apply_windows_browser_policy).
THEOREM OthersUntouched == Spec => OthersKept
<1> DEFINE Kept == pc # "idle" =>
         /\ \A f \in Files : disk[f].by = "user" /\ (act = "unconfigure" \/ f \in ManagedPrefs)
              => disk'[f] = disk[f]
         /\ \A r \in nrpt : r.by = "user" => r \in nrpt'
         /\ \A k \in Keys : "org" \in policy[k] => policy'[k] = policy[k]
<1>1. ASSUME TypeOK, Inv, Executes PROVE Kept
  <2>1. \A f \in Files : disk[f].by = "user" /\ (act = "unconfigure" \/ f \in ManagedPrefs)
          => disk'[f] = disk[f]
    <3> SUFFICES ASSUME NEW f \in Files, disk[f].by = "user",
                        act = "unconfigure" \/ f \in ManagedPrefs
                 PROVE  disk'[f] = disk[f]
      OBVIOUS
    <3>0. disk \in [Files -> Content]
      BY <1>1 DEF TypeOK
    <3>1. CASE WriteFile
      <4>1. act = "configure" /\ (disk' = disk \/ disk' = [disk EXCEPT ![Target] = BodyFor(Target, ip)])
            /\ (Target \in ManagedPrefs => ~ManagedElsewhere(ip, M))
        BY <1>1, <3>1, WriteIs
      <4>2. Target # f
        BY <4>1 DEF ManagedElsewhere, M, OursFor
      <4>3. QED BY <3>0, <4>1, <4>2
    <3>2. CASE RemoveFile
      <4>1. /\ disk' = disk \/ disk' = [disk EXCEPT ![Target] = Nothing]
            /\ OursFor(disk[Target], ip) \/ Target \in PolicyFiles
        BY <1>1, <3>2, RemoveIs
      <4>2. Target # f
        BY <1>1, <4>1 DEF OursFor, Inv, Places
      <4>3. QED BY <3>0, <4>1, <4>2
    <3>3. CASE UNCHANGED disk
      BY <3>3
    <3>4. QED
      BY <1>1, <3>1, <3>2, <3>3 DEF Executes, LeaveAlone, Exec, NrptAdd, NrptRemove, QueryKey,
                                    AddValue, DeleteValue, RecordKey, machine
  <2>2. \A r \in nrpt : r.by = "user" => r \in nrpt'
    BY <1>1 DEF Executes, WriteFile, RemoveFile, LeaveAlone, Exec, NrptAdd, NrptRemove, QueryKey,
                AddValue, DeleteValue, RecordKey, machine
  <2>3. \A k \in Keys : "org" \in policy[k] => policy'[k] = policy[k]
    BY <1>1, OrgKept DEF Inv
  <2>4. QED BY <2>1, <2>2, <2>3
<1>2. ASSUME Next, ~Executes, pc # "idle" PROVE UNCHANGED <<disk, nrpt, policy>>
  BY <1>2 DEF Next, Invoke, PlanEnds, UnconfigureEnds, Verify, Returns, Killed, Reboot,
              DaemonRestarts, LookupFails, OwnerChanges, UserRule, UserNrptRule, machine
<1>3. ASSUME UNCHANGED <<disk, nrpt, policy>> PROVE Kept
  BY <1>3
<1>4. TypeOK /\ Inv /\ [Next]_vars => [Kept]_vars
  BY <1>1, <1>2, <1>3 DEF vars, machine
<1>5. Spec => [][Kept]_vars
  BY <1>4, AlwaysInv, PTL DEF Spec
<1>6. QED BY <1>5 DEF OthersKept

\* A command run again, with the same options on the same machine, writes nothing: no
\* artifact is missing while it works (write_if_changed, nrpt_add_ps_command).
THEOREM RerunIsIdle == Spec => RerunChangesNothing
<1> DEFINE Idle == pc # "idle" /\ last # Never /\ last.clean
                     /\ last.act = act /\ last.ip = ip /\ last.browser = browser
                     /\ last.owner = owner
                   => UNCHANGED <<disk, nrpt, policy>>
<1>1. ASSUME TypeOK, Inv, Executes PROVE Idle
  BY <1>1, RerunStep DEF Inv, Again
<1>2. ASSUME Next, ~Executes, pc # "idle" PROVE UNCHANGED <<disk, nrpt, policy>>
  BY <1>2 DEF Next, Invoke, PlanEnds, UnconfigureEnds, Verify, Returns, Killed, Reboot,
              DaemonRestarts, LookupFails, OwnerChanges, UserRule, UserNrptRule, machine
<1>3. TypeOK /\ Inv /\ [Next]_vars => [Idle]_vars
  BY <1>1, <1>2
<1>4. Spec => [][Idle]_vars
  BY <1>3, AlwaysInv, PTL DEF Spec
<1>5. QED BY <1>4 DEF RerunChangesNothing
=============================================================================
