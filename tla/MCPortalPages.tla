---------------------------- MODULE MCPortalPages ----------------------------
(* The portal's pages, instantiated for TLC by PortalPages.cfg. *)
EXTENDS PortalPages, TLC

McEntry(site) == [site |-> site, exact |-> TRUE, usable |-> TRUE]
McUser == McEntry("SupportEmployerUser")
McAccount == McEntry("SupportEmployerAccount")
McCommitments == McEntry("SupportCommitments")

\* Everything in place; a site without pages and no commitments site; an unusable entry in front
\* of a good one of the same site; a site configured twice; a key spelt otherwise and one that is
\* no identity; a key that is null.
McConfig ==
  {<<McUser, McAccount, McCommitments>>,
   <<McUser, McEntry("SupportPayments"), McAccount>>,
   <<[McUser EXCEPT !.usable = FALSE], McAccount, McCommitments, McUser>>,
   <<McAccount, McAccount, McUser, McCommitments>>,
   <<[McAccount EXCEPT !.exact = FALSE], McEntry(None), McCommitments, McUser>>,
   <<McAccount, McEntry(NoKey), McUser, McCommitments>>}

\* A page behind a challenge, one of another site that takes a child, one that is its own
\* header, and a challenge.
McTyped ==
  {"EmployerAccountFinance", "CommitmentApprenticeDetail", "EmployerUserAccounts",
   "EmployerAccountFinanceChallenge"}

\* Requests are alike.
Symmetry == Permutations(Request)
=============================================================================
