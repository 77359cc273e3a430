---------------------------- MODULE MCCookieJar ----------------------------
(* Instances of CookieJar for TLC. *)
EXTENDS CookieJar

\* Two hosts with the same key, and one of another site.
MCHosts == {<<"a", "e">>, <<"w", "a", "e">>, <<"w", "a", "f">>}

\* A cookie is set, expired, or deleted the way servers do, emptied and expired.
Live(n, h) == [name |-> n, value |-> h, alive |-> TRUE]
Expired(n, h) == [name |-> n, value |-> h, alive |-> FALSE]
Deleted(n) == [name |-> n, value |-> None, alive |-> FALSE]

\* One of the hosts sets up to three cookies at a time, the others always the
\* same one or none.
MCOffers(h) ==
  IF h = <<"w", "a", "e">>
  THEN SeqOf({Live("n", h), Deleted("n")}, 2)
         \cup SetToSeqs({Live("n", h), Expired("n", h), Live("m", h)})
         \cup {<<Live("m", h), Expired("n", h)>>, <<Expired("m", h)>>,
               <<Deleted("m")>>}
  ELSE {<< >>, <<Live("n", h)>>}

=============================================================================
