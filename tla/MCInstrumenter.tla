---- MODULE MCInstrumenter ----
\* A small instance of Instrumenter: a plugin for two files of a package, and
\* one for a module of Node.
EXTENDS Instrumenter

Plugins  == {"mysql", "http"}
Instrs   == {"connection", "pool", "client"}
Modules  == {"connection.js", "pool.js", "http.js"}
CoreOnes == {"http.js"}
Owners   == [i \in Instrs |-> IF i = "client" THEN "http" ELSE "mysql"]
Wanted   == [i \in Instrs |-> CASE i = "connection" -> {"connection.js"}
                                [] i = "pool"       -> {"pool.js"}
                                [] i = "client"     -> {"http.js"}]
====
