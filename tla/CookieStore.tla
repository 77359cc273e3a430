---------------------------- MODULE CookieStore ----------------------------
(***************************************************************************)
(* What a cookie jar of tls-client promises, with no lists and no merging  *)
(* in it: a site has at most one cookie of a name, the last one it was     *)
(* given or, if existing cookies are skipped, the first one; a request     *)
(* carries those that are alive.                                           *)
(***************************************************************************)
EXTENDS Naturals, Sequences, FiniteSetsExt

CONSTANTS
  Hosts,
  Sites,      \* hosts of one site share their cookies
  Site(_),    \* the site of a host
  Names,      \* names of cookies
  Offers(_),  \* lists of cookies that can be set for a host
  Policies,   \* [skipExisting, allowEmpty]
  None

VARIABLES
  policy,  \* of the jar in use, None without a jar
  held,    \* held[s][n]: the cookie of name n of site s
  sent     \* the cookies of a request that is sent, and its host

vars == <<policy, held, sent>>

Nothing == [s \in Sites |-> [n \in Names |-> None]]

Init ==
  /\ policy \in Policies \cup {None}
  /\ held = Nothing
  /\ sent = None

\* The cookies of a list that have a name and may enter the jar.
Candidates(list, n) ==
  {i \in DOMAIN list :
     list[i].name = n /\ (policy.allowEmpty \/ list[i].value # None)}

Store(h, list) ==
  LET now == held[Site(h)]
      Kept(n) ==
        \/ Candidates(list, n) = {}
        \/ policy.skipExisting /\ now[n] # None
  IN  /\ policy # None
      /\ held' = [held EXCEPT ![Site(h)] =
                    [n \in Names |-> IF Kept(n) THEN now[n]
                                     ELSE list[Max(Candidates(list, n))]]]
      /\ sent' = None
      /\ UNCHANGED policy

Send(h) ==
  /\ sent' = [host |-> h,
              cookies |-> {held[Site(h)][n] : n \in
                             {m \in Names : /\ held[Site(h)][m] # None
                                            /\ held[Site(h)][m].alive}}]
  /\ UNCHANGED <<policy, held>>

\* Something that concerns nobody's cookies.
Look ==
  /\ sent' = None
  /\ UNCHANGED <<policy, held>>

\* Another jar.
Replace(p) ==
  /\ policy' = p
  /\ held' = Nothing
  /\ sent' = None

Next ==
  \/ \E h \in Hosts :
       \/ \E list \in Offers(h) : Store(h, list)
       \/ Send(h)
  \/ Look
  \/ \E p \in Policies \cup {None} : Replace(p)

Spec == Init /\ [][Next]_vars

=============================================================================
