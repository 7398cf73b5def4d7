\* Four workers: one each for the actor, the simulation and the renderer, and
\* one more, so that jobs are stolen of which somebody waits; a particle that
\* may split, and a channel in which all that follows the first frame fits
SPECIFICATION FairSpec
CONSTANTS
  Workers = {w1, w2, w3, w4}
  FrameCount = 2
  ParticleCount = 1
  MaxParticles = 2
  Capacity = 3
INVARIANTS
  TypeOK
  FramesExact
  SimulationNotUnderRenderer
PROPERTIES
  VideoDone
