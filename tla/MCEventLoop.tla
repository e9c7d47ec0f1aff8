------------------------------ MODULE MCEventLoop ------------------------------
(* Instances of EventLoop: one client with scripts that cover every way the *)
(* parser can go, and a second one that takes over descriptors.             *)
EXTENDS EventLoop

command(cmd) == [units |-> WriteCommand(cmd), kind |-> "command", cmd |-> cmd]
inline(cmd) == [command(cmd) EXCEPT !.units = [i \in DOMAIN cmd |-> Word(cmd[i])] \o <<CRLF>>]
null == [command(<<"">>) EXCEPT !.units = <<Star(1), CRLF, Dollar(-1), CRLF>>]
line(kind, units) == [units |-> units, kind |-> kind, cmd |-> <<>>]
blank == line("stall", <<CRLF>>)
empty == line("stall", <<Star(0), CRLF>>)
noDollar == line("stall", <<Star(1), CRLF, Word("PING"), CRLF>>)
garbled == line("error", <<Garbled, CRLF>>)
tooMany == line("error", <<Star(maxArgs + 1), CRLF>>)
tooLarge == line("error", <<Star(1), CRLF, Dollar(maxBulkLength + 1), CRLF>>)
badLength == line("error", <<Star(1), CRLF, GarbledLength, CRLF>>)
negativeCount == line("panic", <<Star(-1), CRLF>>)
negativeLength == line("panic", <<Star(1), CRLF, Dollar(-2), CRLF>>)
migrate == inline(<<"MIGRATE", "key", "self">>)
ping == inline(<<"PING">>)
login == inline(<<"AUTH", RequirePass>>)

\* Appending <<>> makes TLC evaluate the sequences once.
Script(items) ==
  LET upTo(j) == FlattenSeq([m \in 1..j |-> items[m].units]) \o <<>>
  IN  [stream |-> upTo(Len(items)),
       items |-> [j \in DOMAIN items |->
                    [end |-> Len(upTo(j)), kind |-> items[j].kind, cmd |-> items[j].cmd]] \o <<>>]

MCScripts == <<
  {Script(<<ping, login, login>>),
    Script(<<command(<<"PING">>)>>),
    Script(<<null>>),
    Script(<<inline(<<"AUTH", "wrong">>)>>),
    Script(<<inline(<<"AUTH">>)>>),
    Script(<<blank, ping>>),
    Script(<<empty>>),
    Script(<<noDollar>>),
    Script(<<ping, garbled>>),
    Script(<<tooMany>>),
    Script(<<tooLarge>>),
    Script(<<badLength>>),
    Script(<<negativeCount>>),
    Script(<<negativeLength>>),
    Script(<<migrate>>)},
  {Script(<<>>)} >>
=============================================================================
