\* Two logins, a change of the network, two failures (a request that is given
\* up) and an out-of-band refresh, of which three happen.
\* A poller that nobody is logged in for is at rest.
SPECIFICATION FairSpec
CONSTANTS
    MaxFutures = 4
    MaxRetries = 1
    MaxLogins = 2
    MaxFlips = 1
    MaxFailures = 2
    MaxRefreshes = 1
    MaxEvents = 3
INVARIANTS TypeOK FlagMeansLoop PollsWhileOnline OneLoopUnlessMissed
PROPERTIES PolledAgainAndAgain InitialLoadCompletes StoppedLoopsEnd
CHECK_DEADLOCK FALSE
