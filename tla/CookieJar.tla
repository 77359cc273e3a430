----------------------------- MODULE CookieJar -----------------------------
(***************************************************************************)
(* The cookie jar of tls-client (jar.go), as responses, requests and       *)
(* callers of SetCookies, GetCookies, GetAllCookies and SetCookieJar use   *)
(* it.  Each of them holds the jar's mutex, so that each is one step, and  *)
(* responses come in any order.                                            *)
(*                                                                         *)
(* A host is the sequence of its labels.  A cookie is its name, its value, *)
(* which is None if empty or else the host that set it, and whether MaxAge *)
(* lets it live.  The list of a host key is a Go slice: GetAllCookies      *)
(* hands out slices of the very arrays that SetCookies may append to.      *)
(*                                                                         *)
(* The jar also writes into a jar of fhttp, which nothing reads.           *)
(***************************************************************************)
EXTENDS SequencesExt

CONSTANTS
  Hosts,
  Names,     \* names of cookies
  Offers(_), \* lists of cookies that a host sets
  MaxSpare,  \* bound on the room append leaves in an array it allocates
  None

Cookie(h) == [name : Names, value : {None, h}, alive : BOOLEAN]

ASSUME CookieJarAssumption ==
  /\ MaxSpare \in Nat
  /\ \A h \in Hosts : h \in Seq({h[i] : i \in DOMAIN h})
  /\ None \notin Hosts
  /\ \A h \in Hosts : Offers(h) \subseteq Seq(Cookie(h))

VARIABLES
  config,      \* of the client's jar, None without one
  allCookies,  \* by host key: array, as long as its capacity, and len
  snapshot,    \* a list of what GetAllCookies returned, by its key, and what
               \* was in it, for as long as its array is the jar's
  sent         \* the host and the cookies of a request that is sent

vars == <<config, allCookies, snapshot, sent>>

Configs == [skipExisting : BOOLEAN, allowEmpty : BOOLEAN]

-----------------------------------------------------------------------------
(* Host keys and lists *)

\* Faulty variant: the first two labels.
hostKey_Prefix(h) == IF Len(h) \in {2, 3} THEN SubSeq(h, 1, 2) ELSE h

\* buildCookieHostKey: hosts of two or three labels go by the last two.
hostKey(h) ==
  IF Len(h) \in {2, 3} THEN SubSeq(h, Len(h) - 1, Len(h)) ELSE h

HostKeys == {hostKey(h) : h \in Hosts}

\* The cookies that hosts with key k can set.
SiteCookie(k) == UNION {Cookie(h) : h \in {g \in Hosts : hostKey(g) = k}}
AnyCookie == UNION {Cookie(h) : h \in Hosts}

\* None is none of the values it is the absence of.
ASSUME NoneAssumption ==
  /\ None \notin Configs
  /\ None \notin AnyCookie
  /\ None \notin [key : HostKeys, was : Seq(AnyCookie)]
  /\ None \notin [host : Hosts, cookies : Seq(AnyCookie)]

Slice(s) == SubSeq(s.array, 1, s.len)
Nil == [array |-> << >>, len |-> 0]

HasName(list, n) == \E i \in DOMAIN list : list[i].name = n

\* The loops of jar.go: what is at some positions of a list is appended to a list
\* of its own, one after the other.
Keep(list, positions) ==
  LET kept[i \in 0 .. Len(list)] ==
        IF i = 0 THEN << >>
        ELSE IF i \in positions THEN Append(kept[i - 1], list[i])
        ELSE kept[i - 1]
  IN  kept[Len(list)]

nonEmpty(list) ==
  Keep(list, {i \in DOMAIN list : config.allowEmpty \/ list[i].value # None})

\* The positions whose name has not been met before.
FirstOfName(list) ==
  {i \in DOMAIN list : ~HasName(SubSeq(list, 1, i - 1), list[i].name)}

\* Faulty variant: in the order of the list, so that the first one stays.
unique_First(list) == Keep(list, FirstOfName(list))

\* From the last to the first, a name already met is left out.
unique(list) == Keep(Reverse(list), FirstOfName(Reverse(list)))

notExpired(list) == Keep(list, {i \in DOMAIN list : list[i].alive})

\* The cookies of a list whose names another list does not have.
Unnamed(list, other) ==
  Keep(list, {i \in DOMAIN list : ~HasName(other, list[i].name)})

-----------------------------------------------------------------------------
(* The jar *)

Empty == [k \in HostKeys |-> Nil]

\* NewCookieJar with any options, or no jar at all.
NewCookieJar(cfg) == cfg \in Configs \cup {None}

Init ==
  /\ NewCookieJar(config)
  /\ allCookies = Empty
  /\ snapshot = None
  /\ sent = None

\* The array of key k is no longer the jar's: nobody writes to it any more.
LeaveArray(k) ==
  snapshot' = IF snapshot # None /\ snapshot.key = k THEN None ELSE snapshot

\* The jar's list gets a new array.
NewArray(k, list, spare) ==
  /\ allCookies' =
       [allCookies EXCEPT ![k] =
          [array |-> list \o [i \in 1 .. spare |-> None], len |-> Len(list)]]
  /\ LeaveArray(k)

\* SetCookies without skipExisting: what the list does not name, then the list,
\* in an array of their own.
Overwrite(k, list) ==
  NewArray(k, Unnamed(Slice(allCookies[k]), list) \o list, 0)

\* Faulty variant: the new cookies go to the front, in place.
SkipExisting_Front(k, list) ==
  LET existing == allCookies[k]
      new == Unnamed(list, Slice(existing))
      all == new \o Slice(existing)
  IN  \/ /\ Len(existing.array) >= Len(all)
         /\ allCookies' = [allCookies EXCEPT ![k] =
              [array |-> [i \in DOMAIN existing.array |->
                            IF i <= Len(all) THEN all[i] ELSE None],
               len |-> Len(all)]]
         /\ UNCHANGED snapshot
      \/ /\ Len(existing.array) < Len(all)
         /\ \E spare \in 0 .. MaxSpare : NewArray(k, all, spare)

\* SetCookies with skipExisting: the new ones are appended, in place if the
\* array has room.
SkipExisting(k, list) ==
  LET existing == allCookies[k]
      new == Unnamed(list, Slice(existing))
      all == Slice(existing) \o new
  IN  \/ /\ Len(existing.array) >= Len(all)
         /\ allCookies' = [allCookies EXCEPT ![k] =
              [array |-> [i \in DOMAIN existing.array |->
                            IF i <= Len(all) THEN all[i]
                            ELSE existing.array[i]],
               len |-> Len(all)]]
         /\ UNCHANGED snapshot
      \/ /\ Len(existing.array) < Len(all)
         /\ \E spare \in 0 .. MaxSpare : NewArray(k, all, spare)

\* A response of the host arrives, or a caller of SetCookies.
SetCookies(h, cookies) ==
  LET list == unique(nonEmpty(cookies))
      k == hostKey(h)
  IN  /\ config # None
      /\ \/ ~config.skipExisting /\ Overwrite(k, list)
         \/ config.skipExisting /\ SkipExisting(k, list)
      /\ sent' = None
      /\ UNCHANGED config

\* A request to the host is sent, or a caller of GetCookies.
SendCookies(h) ==
  /\ sent' = [host |-> h, cookies |-> notExpired(Slice(allCookies[hostKey(h)]))]
  /\ UNCHANGED <<config, allCookies, snapshot>>

\* GetAllCookies copies the map and not the slices in it.
GetAllCookies(k) ==
  /\ config # None
  /\ snapshot' = [key |-> k, was |-> Slice(allCookies[k])]
  /\ sent' = None
  /\ UNCHANGED <<config, allCookies>>

\* The client gets another jar, or none; requests in flight find the new one
\* when their responses arrive.
SetCookieJar(cfg) ==
  /\ NewCookieJar(cfg)
  /\ config' = cfg
  /\ allCookies' = Empty
  /\ snapshot' = None
  /\ sent' = None

Next ==
  \/ \E h \in Hosts :
       \/ \E cookies \in Offers(h) : SetCookies(h, cookies)
       \/ SendCookies(h)
  \/ \E k \in HostKeys : GetAllCookies(k)
  \/ \E cfg \in Configs \cup {None} : SetCookieJar(cfg)

Spec == Init /\ [][Next]_vars

-----------------------------------------------------------------------------
(* Properties *)

\* A list has the cookies of the hosts that share its key, in an array with room
\* for them.
TypeOK ==
  /\ config \in Configs \cup {None}
  /\ allCookies \in
       [HostKeys -> [array : Seq(AnyCookie \cup {None}), len : Nat]]
  /\ \A k \in HostKeys :
       /\ allCookies[k].len <= Len(allCookies[k].array)
       /\ Slice(allCookies[k]) \in Seq(SiteCookie(k))
  /\ snapshot \in [key : HostKeys, was : Seq(AnyCookie)] \cup {None}
  /\ sent \in [host : Hosts, cookies : Seq(AnyCookie)] \cup {None}
  /\ sent # None => sent.cookies \in Seq(SiteCookie(hostKey(sent.host)))

\* A site has its own cookies and one of a name, whatever mix of responses,
\* callers and options came before: a server would read only one of two.  A
\* cookie is sent only to hosts with the same last two labels as the host that
\* set it.
SiteHasItsCookies ==
  /\ \A k \in HostKeys :
       LET list == Slice(allCookies[k])
       IN  \A i, j \in DOMAIN list : list[i].name = list[j].name => i = j
  /\ sent # None =>
       \A i \in DOMAIN sent.cookies :
         LET v == sent.cookies[i].value
             LastTwo(h) == SubSeq(h, Len(h) - 1, Len(h))
         IN  v # None => LastTwo(v) = LastTwo(sent.host)

\* What GetAllCookies returned does not change under its caller, who reads it
\* without the jar's mutex while responses are appended to the same arrays.
SnapshotsHold ==
  snapshot # None =>
    SubSeq(allCookies[snapshot.key].array, 1, Len(snapshot.was)) = snapshot.was

\* The cookie of a name in a list, those of all sites, and those of the request.
HeldIn(list, n) ==
  IF HasName(list, n)
  THEN list[CHOOSE i \in DOMAIN list : list[i].name = n] ELSE None

Held ==
  [k \in HostKeys |-> [n \in Names |-> HeldIn(Slice(allCookies[k]), n)]]

SentSet == IF sent = None THEN None ELSE [sent EXCEPT !.cookies = ToSet(@)]

Abstract ==
  INSTANCE CookieStore WITH
    Sites <- HostKeys,
    Site <- hostKey,
    Policies <- Configs,
    policy <- config,
    held <- Held,
    sent <- SentSet

\* The jar keeps what CookieStore promises: lists, merging and arrays come to
\* one cookie per site and name, last or first come, and requests carry the
\* living ones.  Each operation does what its counterpart does for the same
\* argument: it is not enough that another argument would explain the outcome.
StoreSpec ==
  [][/\ \A h \in Hosts :
          /\ SendCookies(h) => Abstract!Send(h)
          /\ \A cookies \in Offers(h) :
               SetCookies(h, cookies) => Abstract!Store(h, cookies)
     /\ \A k \in HostKeys : GetAllCookies(k) => Abstract!Look
     /\ \A cfg \in Configs \cup {None} :
          SetCookieJar(cfg) => Abstract!Replace(cfg)]_vars

=============================================================================
