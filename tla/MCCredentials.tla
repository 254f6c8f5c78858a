--------------------------- MODULE MCCredentials ---------------------------
(* Instances of Credentials for TLC.                                        *)
EXTENDS Credentials

\* A login whose access token runs out at time 2.
Login == [tok |-> 1, rt |-> 1, exp |-> 2, credits |-> 0, disabled |-> FALSE,
          until |-> 0, err |-> "none", auth |-> "valid"]
\* One whose token runs out sooner, and one pasted without a refresh token.
Expired == [Login EXCEPT !.exp = 1]
Unrenewable == [Login EXCEPT !.rt = 0]

AllLogins == {Login, Expired, Unrenewable}
PastedLogins == {Login, Unrenewable}
JustLogin == {Login}
=============================================================================
