--------------------------- MODULE MCFuzzCampaign ---------------------------
\* Small instances of FuzzCampaign.
EXTENDS FuzzCampaign

MCValues == {"zero", "big"}
MCFloor == [v \in MCValues |-> "zero"]

MCExpected == [behavior |-> "Success", state |-> FALSE, events |-> FALSE,
               auth |-> FALSE, limit |-> TRUE]

Plain == [auth |-> "NoAuth", env |-> "default", every |-> 1, length |-> 2, cases |-> 1, runs |-> 1,
          replay |-> TRUE, faults |-> TRUE, expected |-> MCExpected]

MCSettings ==
    { Plain,
      [Plain EXCEPT !.length = 3, !.replay = FALSE, !.faults = FALSE],
      [Plain EXCEPT !.every = 2, !.cases = 2, !.faults = FALSE],
      [Plain EXCEPT !.every = 0, !.runs = 2],
      [Plain EXCEPT !.auth = "WrongAuth", !.expected.auth = TRUE],
      [Plain EXCEPT !.auth = "CorrectAuth", !.env = "custom", !.faults = FALSE] }

MCAuthSettings == {[Plain EXCEPT !.auth = "CorrectAuth", !.faults = FALSE]}
=============================================================================
