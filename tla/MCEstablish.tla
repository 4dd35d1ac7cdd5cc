------------------------------ MODULE MCEstablish -----------------------------
EXTENDS Establish

MCFd == 4 .. 6

Other == [kind |-> "other", addrs |-> <<>>]
Literals == {[kind |-> "literal", addrs |-> <<a>>] : a \in Family}
Name(addrs) == [kind |-> "fqdn", addrs |-> addrs]

NamesUpTo(n) == {Name(addrs) : addrs \in UNION {[1 .. k -> Family] : k \in 0 .. n}}

MCAll == {Other} \cup Literals \cup NamesUpTo(3)
MCTwoAddresses == {Name(<<"v4", "v4">>)}
===============================================================================
