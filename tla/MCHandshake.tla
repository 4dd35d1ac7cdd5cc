------------------------------ MODULE MCHandshake -----------------------------
EXTENDS Handshake

MCOctet == 0 .. 6
A == <<6>>              (* a name, and a password                          *)
B == <<4>>

MCCredentials == {[name |-> A, passwd |-> A], [name |-> B, passwd |-> <<4, 6>>]}

Methods == {<<>>, <<NoAuth>>, <<UserPass>>, <<1>>, <<UserPass, NoAuth>>,
            <<1, UserPass>>, <<UserPass, 1>>, <<NoAuth, 1, UserPass>>}
Strings == {A, <<>>, <<6, 0, 4>>, <<4, 6>>}

Client(ms, n, w, cmd, type, addr, patient) ==
    [methods |-> ms, name |-> n, passwd |-> w, cmd |-> cmd, atype |-> type,
     address |-> addr, port |-> <<0, 5>>, patient |-> patient]

MCClients ==
    {Client(ms, n, w, Connect, IPv4, <<1>>, p) :
        ms \in Methods, n \in Strings \cup {B}, w \in Strings, p \in BOOLEAN}
    \cup {Client(ms, A, A, cmd, IPv6, <<5, 1>>, TRUE) :
            ms \in {<<NoAuth>>, <<UserPass>>}, cmd \in {Connect, 2}}
    \cup {Client(ms, A, A, cmd, FQDN, addr, p) :
            ms \in {<<NoAuth>>, <<UserPass>>}, cmd \in {Connect, 2},
            addr \in {<<5, 1>>, <<>>}, p \in BOOLEAN}
    \cup {Client(<<NoAuth>>, A, A, Connect, 2, <<5>>, TRUE)}
===============================================================================
