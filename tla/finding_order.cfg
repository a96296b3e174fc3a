\* A batch of two tasks, the second of which is done first.
CONSTANTS
    a1 = a1
    s1 = s1
    s2 = s2
    NoOne = NoOne
    Agents <- OneAgent
    Subagents <- TwoSubagents
    ChildTimeout = 1
    CollectTimeout = 1
    SweepAge = 2
    MaxFaults = 0
SPECIFICATION Spec
PROPERTIES
    ResultsMatchTasks
