--------------------------- MODULE MCProxyStartup ---------------------------
(* TLC model of ProxyStartup: the command lines. *)
EXTENDS ProxyStartup, TLC

Plain == [explicit |-> FALSE, license |-> FALSE, jwt |-> FALSE, wg |-> "unset",
          experimental |-> TRUE, l4 |-> FALSE, port |-> FALSE, reset |-> FALSE]

\* One thing at a time, and some of them with -c config.json.
MCCommands ==
    { Plain, [Plain EXCEPT !.license = TRUE], [Plain EXCEPT !.jwt = TRUE],
      [Plain EXCEPT !.license = TRUE, !.jwt = TRUE],
      [Plain EXCEPT !.wg = "on"], [Plain EXCEPT !.wg = "off"],
      [Plain EXCEPT !.wg = "on", !.license = TRUE],
      [Plain EXCEPT !.experimental = FALSE],
      [Plain EXCEPT !.l4 = TRUE], [Plain EXCEPT !.reset = TRUE],
      [Plain EXCEPT !.explicit = TRUE], [Plain EXCEPT !.explicit = TRUE, !.port = TRUE],
      [Plain EXCEPT !.explicit = TRUE, !.license = TRUE] }

Symmetry == Permutations(Devices)

=============================================================================
