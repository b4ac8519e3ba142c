------------------------------ MODULE MCLnurl -------------------------------
(***************************************************************************)
(* The two parts of the LNURL server, which share no state, side by side:  *)
(* a behaviour is one of LnurlNames or one of LnurlNotify.                 *)
(***************************************************************************)
EXTENDS LnurlNames, LnurlNotify, TLC

CONSTANTS a, b, nobody, noname, h1, h2, i1, d1, s1, s2

VARIABLE part

Signed(routes, key, name, to, time) ==
    [routes |-> routes, key |-> key, name |-> name, to |-> to, timed |-> TRUE, time |-> time]

(* Two registrations, signed when the window of an earlier one is nearly   *)
(* over, exchange the names of 1 and 2; the bare legacy message serves two *)
(* routes; one transfer has a timestamp, one has none.                     *)
MCStatements ==
    { Signed({"register"}, 1, b, 0, 3), Signed({"register"}, 2, a, 0, 3),
      Signed({"register", "unregister"}, 1, a, 0, 1), Signed({"transfer"}, 2, b, 1, 1),
      [Signed({"transfer"}, 1, a, 2, 0) EXCEPT !.timed = FALSE] }
MCRegistered == <<a, b>>
MCDomainOf == i1 :> d1

Init == part \in {"names", "notify"} /\ LNInit /\ NFInit

Next ==
    \/ part = "names" /\ LNNext /\ UNCHANGED <<part, nfVars>>
    \/ part = "notify" /\ NFNext /\ UNCHANGED <<part, lnVars>>

(* NFFairness, for its own part. *)
OfNotify(A) == part = "notify" /\ A

Fairness ==
    /\ \A i \in Invoices :
          /\ WF_nfVars(OfNotify(\E h \in Notices : Notify(h, i)))
          /\ SF_nfVars(OfNotify(\E s \in Servers : Take(s, i)))
          /\ WF_nfVars(OfNotify(RetryDue(i))) /\ WF_nfVars(OfNotify(ClaimStale(i)))
    /\ \A h \in Notices : WF_nfVars(OfNotify(NoticeStep(h)))
    /\ \A s \in Servers : WF_nfVars(OfNotify(Unclaim(s))) /\ WF_nfVars(OfNotify(RefreshConfig(s)))
    /\ \A t \in Permits : WF_nfVars(OfNotify(TaskStep(t))) /\ SF_nfVars(OfNotify(Send(t)))

Spec == Init /\ [][Next]_<<part, lnVars, nfVars>> /\ Fairness

(* The tables of both parts: their types and keys, holds only on names     *)
(* nobody has (HeldIsUnowned, upsert_user), and a zap receipt for every    *)
(* notification that was answered (AnsweredHasReceipt).                    *)
TablesOK == LNTypeOK /\ HeldIsUnowned /\ NFTypeOK /\ AnsweredHasReceipt
=============================================================================
