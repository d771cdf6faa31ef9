------------------------------ MODULE MCServices ------------------------------
(***************************************************************************)
(* Small instances of the services around queue and mailbox store, each in *)
(* behaviours of its own: Sieve scripts, local delivery, CalDAV and        *)
(* CardDAV, the login to the administration server, what IMAP sessions are *)
(* told, the MX cache, and the life of the process.                        *)
(***************************************************************************)
EXTENDS Inbound, DavStore, AdminLogin, ImapView, MxCache, Lifecycle

CONSTANTS Parts, s1, s2, d1, d2, i1, r1, r2, u1, u2, v1, v2, a1, a2, x1, x2

VARIABLE part

servicesVars ==
  <<part, sieveVars, inboundVars, davVars, loginVars, viewVars, mxVars, lifeVars>>

ServicesInit ==
  /\ part \in Parts
  /\ SieveInit /\ InboundInit /\ DavInit /\ LoginInit /\ ViewInit /\ MxInit /\ LifeInit

SievePart == part = "sieve" /\ SieveNext
  /\ UNCHANGED <<part, inboundVars, davVars, loginVars, viewVars, mxVars, lifeVars>>
InboundPart == part = "inbound" /\ InboundNext
  /\ UNCHANGED <<part, sieveVars, davVars, loginVars, viewVars, mxVars, lifeVars>>
DavPart == part = "dav" /\ DavNext
  /\ UNCHANGED <<part, sieveVars, inboundVars, loginVars, viewVars, mxVars, lifeVars>>
LoginPart == part = "login" /\ LoginNext
  /\ UNCHANGED <<part, sieveVars, inboundVars, davVars, viewVars, mxVars, lifeVars>>
ViewPart == part = "view" /\ ViewNext
  /\ UNCHANGED <<part, sieveVars, inboundVars, davVars, loginVars, mxVars, lifeVars>>
MxPart == part = "mx" /\ MxNext
  /\ UNCHANGED <<part, sieveVars, inboundVars, davVars, loginVars, viewVars, lifeVars>>
LifePart == part = "life" /\ LifeNext
  /\ UNCHANGED <<part, sieveVars, inboundVars, davVars, loginVars, viewVars, mxVars>>

ServicesNext ==
  SievePart \/ InboundPart \/ DavPart \/ LoginPart \/ ViewPart \/ MxPart \/ LifePart

ServicesSpec == ServicesInit /\ [][ServicesNext]_servicesVars

(* The types of all these components' variables. *)
ServicesTypeOK ==
  /\ SieveTypeOK /\ InboundTypeOK /\ DavTypeOK /\ LoginTypeOK
  /\ ViewTypeOK /\ MxTypeOK /\ LifeTypeOK

-----------------------------------------------------------------------------
(* The message of the Sieve runs: from ann to bob, no subject, of size 2. *)
OneMsg == [hdr |-> [from |-> {"ann"}, to |-> {"bob"}, subject |-> {""}], size |-> 2]

(* A header test over a header that is there and one that is not, a size test at
   its limit, a test whose arguments are refused.                            *)
SomeTests ==
  {[kind |-> "header", headers |-> {"from", "list-id"}, values |-> {"ann"}, match |-> "is", part |-> "all"],
   [kind |-> "size", over |-> TRUE, limit |-> 2], [kind |-> BadArg]}
SomeMatches == {<<"is", "all", "ann", "ann">>}

Act(typ, arg) == [typ |-> typ, arg |-> arg]
Rule(acts) == [conds |-> <<>>, allOf |-> TRUE, acts |-> acts]
SomeActions == {Act("keep", ""), Act("discard", ""), Act("fileinto", "Work"), Act("stop", "")}

(* An account's script: none, an answer and a folder, a redirect without and with
   a copy to keep, a discard, a reject.                                      *)
SomeScripts ==
  {<<>>,
   <<Rule(<<Act("vacation", "")>>), Rule(<<Act("fileinto", "Work")>>)>>,
   <<Rule(<<Act("redirect", "eve")>>)>>,
   <<Rule(<<Act("redirect", "eve"), Act("keep", "")>>)>>,
   <<Rule(<<Act("discard", "")>>)>>,
   <<Rule(<<Act("reject", "")>>)>>}

SomeEnvelopes == {<<>>, <<"bob">>, <<"bob", "bob">>, <<"fwd", "bob">>}
=============================================================================
