---------------------------- MODULE Socks5Parsers -----------------------------
(***************************************************************************)
(* lib/parsers/socks5: the parsers of the three messages of a SOCKS5       *)
(* client.  Each is fed one byte at a time; what is variable in a message  *)
(* is announced by a length byte before it.                                *)
(***************************************************************************)
EXTENDS Integers, Sequences

CONSTANTS
    Octet,      (* the bytes                                               *)
    V4Length,   (* the length of an IPv4 address (4)                       *)
    V6Length    (* the length of an IPv6 address (16)                      *)

Version == 5
NegotiationVersion == 1
NoAuth == 0
UserPass == 2
NoAcceptable == 255     (* SOCKS5_AUTH_INVALID *)
Connect == 1
IPv4 == 1
FQDN == 3
IPv6 == 4

ASSUME Socks5ParsersAssumption ==
    /\ Octet \subseteq 0 .. 255
    /\ {0, 1, 2, 3, 4, 5} \subseteq Octet
    /\ V4Length \in Nat \ {0}
    /\ V6Length \in Nat \ {0}

Going(p, state) == [p EXCEPT !.state = state]

(* ...ParserHasFinished and ...ParserHasFailed of the three files.         *)
Socks5Finished(p) == p.state \in {"Done", "BadVersion", "Invalid"}
Socks5Failed(p) == p.state \in {"BadVersion", "Invalid"}

(* The bytes of a chunk are fed until one ends the parser.                 *)
FedWith(feed(_, _), p, chunk) ==
    LET fed[i \in 0 .. Len(chunk)] ==
            IF i = 0 THEN p
            ELSE IF Socks5Finished(fed[i - 1]) THEN fed[i - 1]
            ELSE feed(fed[i - 1], chunk[i])
    IN fed[Len(chunk)]

-------------------------------------------------------------------------------
(* VER NMETHODS METHODS *)
HelloParserReset == [state |-> "Version", nmethods |-> 0, methods |-> <<>>]

HelloParserFeed(p, c) ==
    CASE p.state = "Version"  -> Going(p, IF c = Version THEN "NMethods" ELSE "BadVersion")
      [] p.state = "NMethods" -> [p EXCEPT !.nmethods = c,
                                           !.state = IF c = 0 THEN "Invalid" ELSE "Methods"]
      [] p.state = "Methods"  -> [p EXCEPT !.methods = Append(@, c),
                                           !.state = IF Len(p.methods) + 1 = p.nmethods
                                                     THEN "Done" ELSE @]
      [] OTHER                -> p

HelloParserConsume(p, chunk) == FedWith(HelloParserFeed, p, chunk)

-------------------------------------------------------------------------------
(* VER ULEN UNAME PLEN PASSWD *)
AuthParserReset ==
    [state |-> "Version", ulen |-> 0, uname |-> <<>>, plen |-> 0, passwd |-> <<>>]

AuthParserFeed(p, c) ==
    CASE p.state = "Version" -> Going(p, IF c = NegotiationVersion THEN "ULen" ELSE "BadVersion")
      [] p.state = "ULen"    -> [p EXCEPT !.ulen = c,
                                          !.state = IF c = 0 THEN "Invalid" ELSE "UName"]
      [] p.state = "UName"   -> [p EXCEPT !.uname = Append(@, c),
                                          !.state = IF Len(p.uname) + 1 = p.ulen
                                                    THEN "PLen" ELSE @]
      [] p.state = "PLen"    -> [p EXCEPT !.plen = c,
                                          !.state = IF c = 0 THEN "Invalid" ELSE "Passwd"]
      [] p.state = "Passwd"  -> [p EXCEPT !.passwd = Append(@, c),
                                          !.state = IF Len(p.passwd) + 1 = p.plen
                                                    THEN "Done" ELSE @]
      [] OTHER               -> p

AuthParserConsume(p, chunk) == FedWith(AuthParserFeed, p, chunk)

-------------------------------------------------------------------------------
(* VER CMD RSV ATYP DST.ADDR DST.PORT *)
RequestParserReset ==
    [state |-> "Version", cmd |-> 0, atype |-> 0, length |-> 0, address |-> <<>>,
     port |-> <<>>]

(* Literal addresses have a fixed length; a name's is its first byte.      *)
AddressType(p, c) ==
    LET typed == [p EXCEPT !.atype = c]
    IN CASE c = IPv4 -> [typed EXCEPT !.state = "Address", !.length = V4Length]
         [] c = IPv6 -> [typed EXCEPT !.state = "Address", !.length = V6Length]
         [] c = FQDN -> [typed EXCEPT !.state = "Name"]
         [] OTHER    -> Going(typed, "Invalid")

AddressByteUnsized(p, c) ==                               (* a mutant *)
    [p EXCEPT !.address = Append(@, c),
              !.length = IF @ = 0 THEN c ELSE @,
              !.state = IF Len(p.address) + 1 = p.length THEN "Port" ELSE @]
(* A length of 0 shows that the length byte of a name is still to come.    *)
AddressByte(p, c) ==
    IF p.state = "Name" /\ p.length = 0
      THEN [p EXCEPT !.length = c, !.state = IF c = 0 THEN "Invalid" ELSE @]
      ELSE [p EXCEPT !.address = Append(@, c),
                     !.state = IF Len(p.address) + 1 = p.length THEN "Port" ELSE @]

PortByte(p, c) ==
    [p EXCEPT !.port = Append(@, c), !.state = IF p.port = <<>> THEN @ ELSE "Done"]

RequestParserFeed(p, c) ==
    CASE p.state = "Version" -> Going(p, IF c = Version THEN "CMD" ELSE "BadVersion")
      [] p.state = "CMD"     -> [p EXCEPT !.cmd = c, !.state = "RSV"]
      [] p.state = "RSV"     -> Going(p, IF c = 0 THEN "AType" ELSE "Invalid")
      [] p.state = "AType"   -> AddressType(p, c)
      [] p.state \in {"Address", "Name"} -> AddressByte(p, c)
      [] p.state = "Port"    -> PortByte(p, c)
      [] OTHER               -> p

RequestParserConsume(p, chunk) == FedWith(RequestParserFeed, p, chunk)
===============================================================================
